---- MODULE Spec2Model ----
\* Verification model of the portal-scraping core of the backend:
\*   - get_cache_key / invalidate_user_cache and the two TTL caches (main.py),
\*   - the /login and /fetch-grades handlers on the single asyncio event loop (main.py),
\*   - the three scrapers BossScraper, MoodleScraper, LsfScraper as the sets of runs
\*     their code can take against the browser and the portals,
\*   - the pure functions of the scrapers and of the degree audit on bounded inputs
\*     (grade table, deadlines, audit, selector lookups, tree-view link, degree
\*     identity, lecture list, cache key),
\*   - get_cached_driver_path called from several threads (webdriver_utils.py).
EXTENDS Integers, Sequences, FiniteSets, TLC

VARIABLES
    now,                \* value of the cache timer (time.monotonic, in seconds)
    ttl_strict,         \* expiry comparison of the installed cachetools: TRUE "now < expires"
    user_login_cache,   \* main.py:101
    user_grades_cache,  \* main.py:102
    moodle_profile,     \* session left in the Chrome profile directory shared by all MoodleScraper runs
    inflight,           \* handler invocations suspended at an await
    ret,                \* the handler invocation that returned in the last step, if one did
    calls,              \* number of handler invocations started so far
    scr,                \* the scraper run executed last (scraper-level specification)
    job                 \* the call of a pure function under examination: its input and its result

vars == <<now, ttl_strict, user_login_cache, user_grades_cache, moodle_profile,
          inflight, ret, calls, scr, job>>

serverVars ==
    <<now, ttl_strict, user_login_cache, user_grades_cache, inflight, ret, calls, job>>

\* ---------------------------------------------------------------------------
\* Bounds
\* ---------------------------------------------------------------------------
MaxCalls == 3       \* handler invocations per behaviour
MaxInFlight == 1    \* handler invocations suspended at the same time
MaxDays == 1        \* the timer is observed around 0, ttl, ..., MaxDays * ttl

\* text is a sequence of code points, and str.encode() of ASCII text is the same bytes:
\* the usernames "a" and "b", the passwords "" and "p"
Usernames == {<<97>>, <<98>>}
Passwords == {<<>>, <<112>>}
Credentials ==
    {[username |-> <<97>>, password |-> <<112>>], [username |-> <<97>>, password |-> <<>>],
     [username |-> <<98>>, password |-> <<112>>]}
TotpSecrets == {"None", "seed"}

\* the accounts the SSO provider accepts
ValidCredentials == {c \in Credentials : c.password = <<112>>}

\* ---- hashlib.sha256 (FIPS 180-4), 32-bit words kept as <<high 16 bits, low 16 bits>> ----
W16 == 65536

RECURSIVE Pow2(_)
Pow2(n) == IF n = 0 THEN 1 ELSE 2 * Pow2(n - 1)

RECURSIVE Xor16(_, _)
Xor16(a, b) ==
    IF a = 0 THEN b
    ELSE IF b = 0 THEN a
    ELSE (((a % 2) + (b % 2)) % 2) + (2 * Xor16(a \div 2, b \div 2))

RECURSIVE And16(_, _)
And16(a, b) ==
    IF a = 0 \/ b = 0 THEN 0
    ELSE ((a % 2) * (b % 2)) + (2 * And16(a \div 2, b \div 2))

WXor(x, y) == <<Xor16(x[1], y[1]), Xor16(x[2], y[2])>>
WAnd(x, y) == <<And16(x[1], y[1]), And16(x[2], y[2])>>
WNot(x) == <<W16 - 1 - x[1], W16 - 1 - x[2]>>
WAdd(x, y) ==
    LET lo == x[2] + y[2]
        hi == x[1] + y[1] + (lo \div W16)
    IN <<hi % W16, lo % W16>>

Rotr(x, n) ==
    LET s == IF n >= 16 THEN <<x[2], x[1]>> ELSE x
        m == IF n >= 16 THEN n - 16 ELSE n
        p == Pow2(m)
        q == Pow2(16 - m)
    IN <<(s[1] \div p) + ((s[2] % p) * q), (s[2] \div p) + ((s[1] % p) * q)>>

Shr(x, n) ==
    LET p == Pow2(n)
        q == Pow2(16 - n)
    IN <<x[1] \div p, (x[2] \div p) + ((x[1] % p) * q)>>

SHA_K ==
    <<
      <<17034, 12184>>, <<28983, 17553>>, <<46528, 64463>>, <<59829, 56229>>,
      <<14678, 49755>>, <<23025, 4593>>, <<37439, 33444>>, <<43804, 24277>>,
      <<55303, 43672>>, <<4739, 23297>>, <<9265, 34238>>, <<21772, 32195>>,
      <<29374, 23924>>, <<32990, 45566>>, <<39900, 1703>>, <<49563, 61812>>,
      <<58523, 27073>>, <<61374, 18310>>, <<4033, 40390>>, <<9228, 41420>>,
      <<11753, 11375>>, <<19060, 33962>>, <<23728, 43484>>, <<30457, 35034>>,
      <<38974, 20818>>, <<43057, 50797>>, <<45059, 10184>>, <<48985, 32711>>,
      <<50912, 3059>>, <<54695, 37191>>, <<1738, 25425>>, <<5161, 10599>>,
      <<10167, 2693>>, <<11803, 8504>>, <<19756, 28156>>, <<21304, 3347>>,
      <<25866, 29524>>, <<30314, 2747>>, <<33218, 51502>>, <<37490, 11397>>,
      <<41663, 59553>>, <<43034, 26187>>, <<49739, 35696>>, <<51052, 20899>>,
      <<53650, 59417>>, <<54937, 1572>>, <<62478, 13701>>, <<4202, 41072>>,
      <<6564, 49430>>, <<7735, 27656>>, <<10056, 30540>>, <<13488, 48309>>,
      <<14620, 3251>>, <<20184, 43594>>, <<23452, 51791>>, <<26670, 28659>>,
      <<29839, 33518>>, <<30885, 25455>>, <<33992, 30740>>, <<36039, 520>>,
      <<37054, 65530>>, <<42064, 27883>>, <<48889, 41975>>, <<50801, 30962>>
    >>

SHA_H0 ==
    <<
      <<27145, 58983>>, <<47975, 44677>>, <<15470, 62322>>, <<42319, 62778>>,
      <<20750, 21119>>, <<39685, 26764>>, <<8067, 55723>>, <<23520, 52505>>
    >>

BigSigma0(x) == WXor(WXor(Rotr(x, 2), Rotr(x, 13)), Rotr(x, 22))
BigSigma1(x) == WXor(WXor(Rotr(x, 6), Rotr(x, 11)), Rotr(x, 25))
SmallSigma0(x) == WXor(WXor(Rotr(x, 7), Rotr(x, 18)), Shr(x, 3))
SmallSigma1(x) == WXor(WXor(Rotr(x, 17), Rotr(x, 19)), Shr(x, 10))
Ch(x, y, z) == WXor(WAnd(x, y), WAnd(WNot(x), z))
Maj(x, y, z) == WXor(WXor(WAnd(x, y), WAnd(x, z)), WAnd(y, z))

\* message padding: 0x80, zeros up to 56 mod 64, 64-bit big-endian bit length
RECURSIVE Zeros(_)
Zeros(n) == IF n = 0 THEN <<>> ELSE <<0>> \o Zeros(n - 1)

Pad(msg) ==
    LET bits == 8 * Len(msg)
        z == (119 - Len(msg)) % 64
    IN msg \o <<128>> \o Zeros(z) \o <<0, 0, 0, 0, 0, 0>>
           \o <<bits \div 256, bits % 256>>

BlockWords(bytes, b) ==
    [i \in 1..16 |->
        LET o == (64 * b) + (4 * (i - 1))
        IN <<(bytes[o + 1] * 256) + bytes[o + 2], (bytes[o + 3] * 256) + bytes[o + 4]>>]

\* Strict(v): the value v itself, evaluated before it is used
Strict(v) == CHOOSE r \in {v} : TRUE

RECURSIVE Schedule(_, _)
Schedule(w, t) ==
    IF t > 64 THEN w
    ELSE CHOOSE r \in {Schedule(v, t + 1) :
             v \in {Append(w, WAdd(WAdd(w[t - 16], SmallSigma0(w[t - 15])),
                                   WAdd(w[t - 7], SmallSigma1(w[t - 2]))))}} : TRUE

Round(s, w, t) ==
    LET t1 == Strict(WAdd(WAdd(WAdd(s[8], BigSigma1(s[5])), Ch(s[5], s[6], s[7])),
                          WAdd(SHA_K[t], w[t])))
        t2 == Strict(WAdd(BigSigma0(s[1]), Maj(s[1], s[2], s[3])))
    IN <<WAdd(t1, t2), s[1], s[2], s[3], WAdd(s[4], t1), s[5], s[6], s[7]>>

\* rounds lo..hi of the compression loop, split in halves to keep the evaluation shallow
RECURSIVE Rounds(_, _, _, _)
Rounds(s, w, lo, hi) ==
    IF lo = hi THEN Round(s, w, lo)
    ELSE LET mid == (lo + hi) \div 2
         IN CHOOSE r \in {Rounds(v, w, mid + 1, hi) : v \in {Rounds(s, w, lo, mid)}} : TRUE

RECURSIVE Compress(_, _, _)
Compress(h, bytes, b) ==
    IF 64 * b >= Len(bytes) THEN h
    ELSE CHOOSE r \in {Compress([i \in 1..8 |-> WAdd(h[i], s[i])], bytes, b + 1) :
             s \in {Rounds(h, w, 1, 64) : w \in {Schedule(BlockWords(bytes, b), 17)}}} : TRUE

sha256(msg) == Compress(SHA_H0, Pad(msg), 0)

\* hexdigest(): 64 lower-case hexadecimal digits, here as digit values 0..15
WordHex(x) ==
    <<x[1] \div 4096, (x[1] \div 256) % 16, (x[1] \div 16) % 16, x[1] % 16,
      x[2] \div 4096, (x[2] \div 256) % 16, (x[2] \div 16) % 16, x[2] % 16>>

RECURSIVE HexOf(_, _)
HexOf(h, i) == IF i > Len(h) THEN <<>> ELSE WordHex(h[i]) \o HexOf(h, i + 1)

hexdigest(msg) == HexOf(sha256(msg), 1)

\* ---------------------------------------------------------------------------
\* Scrapers.  A run is the sequence of things one call does to the browser and
\* observes from the portal, with the way the call ends.  Each operator below
\* is the set of runs of the function of the same name: every driver call may
\* succeed or raise, every wait may time out, and the portal answers as the
\* credentials and the stored session allow.
\* ---------------------------------------------------------------------------
Ret(ev, v) == [ev |-> ev, kind |-> "return", val |-> v]
Raise(ev, m) == [ev |-> ev, kind |-> "raise", val |-> m]
After(ev, runs) == {[r EXCEPT !.ev = ev \o r.ev] : r \in runs}
Has(ev, e) == \E i \in 1..Len(ev) : ev[i] = e
Count(ev, e) == Cardinality({i \in 1..Len(ev) : ev[i] = e})

\* "first; next": an exception of first ends the run, otherwise next follows
AndThen(first, next) ==
    UNION {IF r.kind = "raise" THEN {r} ELSE After(r.ev, next) : r \in first}

\* try: body / except Exception: handler / finally: quit the driver if one was launched
DriverSet(ev) == Has(ev, "launch") /\ ~Has(ev, "quit")
\* the quit at the end of the try body instead of in a finally clause
QuitUnlessFailed(ev) ==
    IF DriverSet(ev) /\ ~Has(ev, "dump") /\ ~Has(ev, "see_fail_text")
    THEN ev \o <<"quit">> ELSE ev
QuitIfDriver(ev) == IF DriverSet(ev) THEN ev \o <<"quit">> ELSE ev

NoSession == [username |-> <<>>, password |-> <<>>, none |-> TRUE]
SessionOf(c) == [username |-> c.username, password |-> c.password, none |-> FALSE]

\* --- _dump_debug_info: "dump" is the call with a driver, followed by the step
\* of it that failed, if one did; the failure is caught inside the function ---
DumpFailures == {"screenshot_error", "page_source_error", "write_error"}

\* MoodleScraper._dump_debug_info (moodle_scraper.py:36-49): one try block around all steps
MoodleDumpRuns(driver) ==
    IF ~driver THEN {Ret(<<>>, "None")}
    ELSE {Ret(<<"dump">> \o x, "None") : x \in {<<>>} \cup {<<f>> : f \in DumpFailures}}

\* the HTML file written outside the try block
BossDumpUnguarded(driver) ==
    IF ~driver THEN {Ret(<<>>, "None")}
    ELSE UNION {{Ret(<<"dump">> \o s, "None"),
                 Raise(<<"dump">> \o s \o <<"page_source_error">>, "WebDriverException"),
                 Raise(<<"dump">> \o s \o <<"write_error">>, "OSError")} :
                s \in {<<>>, <<"screenshot_error">>}}
\* BossScraper._dump_debug_info (boss_scraper.py:34-53): nothing without a driver; the
\* screenshot and the HTML file are attempted one after the other
BossDumpRuns(driver) ==
    IF ~driver THEN {Ret(<<>>, "None")}
    ELSE {Ret(<<"dump">> \o x \o h, "None") :
          x \in {<<>>, <<"screenshot_error">>},
          h \in {<<>>, <<"page_source_error">>, <<"write_error">>}}

\* LsfScraper._dump_debug_info (lsf_scraper.py:59-73): nothing without a driver, one try block
LsfDumpRuns(driver) ==
    IF ~driver THEN {Ret(<<>>, "None")}
    ELSE {Ret(<<"dump">> \o x, "None") : x \in {<<>>} \cup {<<f>> : f \in DumpFailures}}

\* --- webdriver setup (boss_scraper.py:56-85, moodle_scraper.py:51-76) ---
SetupDriverRuns ==
    {Raise(<<>>, "WebDriverException"), Ret(<<"launch">>, "None")}

\* --- MoodleScraper.login (moodle_scraper.py:78-134) ---
MoodleLoginRuns(c, profile) ==
    LET failed == AndThen(MoodleDumpRuns(TRUE), {Ret(<<>>, "False")})   \* 131-134
        afterSubmit ==                                  \* 123-130
            IF c \in ValidCredentials
            THEN {Ret(<<"sso_accept">>, "True")} \cup After(<<"sso_accept">>, failed)
                 \cup failed
            ELSE {Ret(<<"see_fail_text">>, "False")} \cup failed
        form ==                                         \* 110-121
            After(<<"find_user">>, failed)
            \cup After(<<"find_user", "type_user", "find_pass">>, failed)
            \cup After(<<"find_user", "type_user", "find_pass", "type_pass", "find_submit">>,
                       failed)
            \cup After(<<"find_user", "type_user", "find_pass", "type_pass", "find_submit",
                         "submit">>, afterSubmit)
        sso ==                                          \* 104-108
            failed
            \cup (IF profile.none THEN {} ELSE {Ret(<<"sso_session">>, "True")})
            \cup form
        button == {<<"click_uni">>, <<>>}               \* 94-101
    IN  {Raise(<<"get">>, "WebDriverException")}        \* 86
        \cup (IF profile.none THEN {}                   \* 89-91
              ELSE {Ret(<<"get", "session_valid">>, "True")})
        \cup UNION {After(<<"get">> \o b, sso) : b \in button}

\* --- MoodleScraper.extract_deadlines as seen by its caller (moodle_scraper.py:136-251) ---
MoodleExtractRuns ==
    {Raise(<<"extract">>, "WebDriverException"),
     Ret(<<"extract">>, "none"), Ret(<<"extract">>, "some")}

MoodleResult(ok, err, n) == [success |-> ok, error |-> err, deadlines |-> n]

\* --- MoodleScraper.get_deadlines(close_driver) (moodle_scraper.py:253-269) ---
MoodleGetDeadlinesRuns(c, profile, close_driver) ==
    LET body ==
            UNION {IF s.kind = "raise" THEN {s}
                   ELSE UNION {IF l.kind = "raise" THEN After(s.ev, {l})
                               ELSE IF l.val = "True"
                                    THEN After(s.ev \o l.ev, MoodleExtractRuns)
                                    ELSE {Ret(s.ev \o l.ev, "Authentication failed")} :
                               l \in MoodleLoginRuns(c, profile)} :
                   s \in SetupDriverRuns}
        result(r) ==
            IF r.kind = "raise" THEN MoodleResult(FALSE, r.val, "none")
            ELSE IF r.val = "Authentication failed"
                 THEN MoodleResult(FALSE, r.val, "none")
                 ELSE MoodleResult(TRUE, "", r.val)
    IN  {[ev |-> IF close_driver THEN QuitIfDriver(r.ev) ELSE r.ev, result |-> result(r)] :
         r \in body}

\* the session the profile directory holds after a run
MoodleProfileAfter(c, profile, ev) ==
    IF Has(ev, "sso_accept") THEN SessionOf(c) ELSE profile

\* a login that fills in and submits the form a second time when the portal
\* rejects the first submission
BossLoginRetrying(c, totp_secret) ==
    LET form == <<"find_user", "type_user", "find_pass", "type_pass", "submit">>
    IN  {Raise(<<"get">>, "WebDriverException")}
        \cup (IF c \in ValidCredentials
              THEN {Ret(<<"get">> \o form \o <<"sso_accept">>, "None")}
              ELSE {Raise(<<"get">> \o form \o <<"see_fail_text">> \o form
                              \o <<"see_fail_text">>, "Invalid Credentials")})

\* --- BossScraper.login (boss_scraper.py:87-255): returns None or raises ---
BossLoginRuns(c, totp_secret) ==
    LET verification ==                                 \* 237-255
            {Ret(<<>>, "None"),
             Raise(<<>>, "Authentication failed or redirect timeout."),
             Raise(<<>>, "BOSS is currently down for maintenance.")}
        second_factor ==                                \* 196-235
            IF totp_secret = "None"
            THEN {Raise(<<"challenge">>, "2FA required but no TOTP secret provided.")}
            ELSE {Raise(<<"challenge", "find_token">>, "2FA token input field not found."),
                  Raise(<<"challenge", "find_token", "type_token">>, "NoSuchElementException")}
                 \cup After(<<"challenge", "find_token", "type_token", "submit_token">>,
                            verification)
        afterSubmit ==                                  \* 188-194
            IF c \in ValidCredentials
            THEN After(<<"sso_accept">>, verification \cup second_factor)
            ELSE {Raise(<<"see_fail_text">>, "Invalid Credentials"),
                  Raise(<<>>, "Authentication failed or redirect timeout.")}
        injection(onSso) ==                             \* 116-186
            {Raise(<<"find_user">>, "Username field not found"),
             Raise(<<"find_user", "type_user", "find_pass">>, "Password field not found")}
            \cup (IF onSso
                  THEN After(<<"find_user", "type_user", "find_pass", "type_pass", "submit">>,
                             afterSubmit)
                  ELSE {})
        redirect ==                                     \* 91-111
            After(<<"get">>, injection(TRUE))
            \cup After(<<"get", "click_login">>, injection(TRUE))
            \cup After(<<"get">>, injection(FALSE))
            \cup After(<<"get", "session_valid">>, injection(FALSE))
    IN  {Raise(<<"get">>, "WebDriverException")} \cup redirect     \* 89

\* --- BossScraper.navigate_to_grades (boss_scraper.py:257-351) ---
BossNavigateRuns ==
    {Raise(<<"navigate">>, "TimeoutException"),        \* 260-280
     Ret(<<"navigate">>, "None")}
    \cup After(<<"navigate">>, BossDumpRuns(TRUE))      \* 327-329, 342-344

\* --- extract_degree_identity and extract_grades as seen by get_data (boss_scraper.py:608-614) ---
BossExtractRuns ==
    {Raise(<<"extract">>, "WebDriverException"),
     Ret(<<"extract">>, "some")}
    \cup After(<<"extract">>, AndThen(BossDumpRuns(TRUE), {Ret(<<>>, "none")}))   \* 612-614

BossResult(err, exams) == [error |-> err, exams |-> exams]

\* --- BossScraper.get_data (boss_scraper.py:601-629); an exception of the dump in
\* the except clause would leave get_data in place of the one being handled ---
BossGetDataRuns(c, totp_secret) ==
    LET body ==
            AndThen(SetupDriverRuns,
                AndThen(BossLoginRuns(c, totp_secret),
                    AndThen(BossNavigateRuns, BossExtractRuns)))
    IN  UNION {IF r.kind = "raise"
               THEN {[ev |-> QuitIfDriver(r.ev \o d.ev),                \* 623-629
                      result |-> BossResult(IF d.kind = "raise" THEN d.val ELSE r.val,
                                            "none")] :
                     d \in BossDumpRuns(DriverSet(r.ev))}
               ELSE {[ev |-> QuitIfDriver(r.ev), result |-> BossResult("", r.val)]} :
               r \in body}

\* --- LsfScraper._inject_sso_credentials (lsf_scraper.py:75-169) ---
LsfInjectRuns(c, totp_secret) ==
    LET failed == AndThen(LsfDumpRuns(TRUE), {Ret(<<>>, "False")})      \* 166-169
        final == {Ret(<<>>, "True")} \cup failed        \* 162-165
        second_factor ==                                \* 133-160
            IF totp_secret = "None"
            THEN After(<<"challenge">>, failed)
            ELSE After(<<"challenge", "find_token">>, failed)
                 \cup After(<<"challenge", "find_token", "type_token">>, failed)
                 \cup After(<<"challenge", "find_token", "type_token", "submit_token">>, final)
        afterSubmit ==
            IF c \in ValidCredentials
            THEN After(<<"sso_accept">>, final \cup second_factor)
            ELSE failed
    IN  failed                                          \* 80
        \cup {Ret(<<"sso_session">>, "True")}           \* 82-83
        \cup After(<<"find_user">>, AndThen(LsfDumpRuns(TRUE), failed))        \* 95-97
        \cup After(<<"find_user", "type_user", "find_pass">>, failed)          \* 112-113
        \cup After(<<"find_user", "type_user", "find_pass", "type_pass", "submit">>,
                   afterSubmit)

\* --- LsfScraper.login (lsf_scraper.py:15-57) ---
LsfLoginRuns(c, totp_secret) ==
    {Raise(<<"get">>, "WebDriverException"),           \* 18
     Ret(<<"get", "session_valid">>, "True")}           \* 32-34
    \cup After(<<"get">>, LsfInjectRuns(c, totp_secret))              \* 36-37, 52-53
    \cup After(<<"get", "click_login">>, LsfInjectRuns(c, totp_secret))   \* 43-51

\* --- page fetch and extract_current_classes as seen by get_current_classes (lsf_scraper.py:271-282) ---
LsfExtractRuns ==
    {Raise(<<"extract">>, "AttributeError"),
     Raise(<<"extract">>, "WebDriverException"),
     Ret(<<"extract">>, "none"), Ret(<<"extract">>, "some")}

LsfResult(ok, err, n) == [success |-> ok, error |-> err, current_classes |-> n]

\* --- LsfScraper.get_current_classes (lsf_scraper.py:264-293) ---
LsfGetCurrentClassesRuns(c, totp_secret) ==
    LET body ==
            UNION {IF s.kind = "raise" THEN {s}
                   ELSE UNION {IF l.kind = "raise" THEN After(s.ev, {l})
                               ELSE IF l.val = "True"
                                    THEN After(s.ev \o l.ev, LsfExtractRuns)
                                    ELSE {Ret(s.ev \o l.ev, "Login failed")} :
                               l \in LsfLoginRuns(c, totp_secret)} :
                   s \in SetupDriverRuns}
        result(r) ==
            IF r.kind = "raise" THEN LsfResult(FALSE, r.val, "none")
            ELSE IF r.val = "Login failed"
                 THEN LsfResult(FALSE, r.val, "none")
                 ELSE LsfResult(TRUE, "", r.val)
    IN  {[ev |-> QuitIfDriver(r.ev), result |-> result(r)] : r \in body}

\* ---------------------------------------------------------------------------
\* Result caches (main.py:99-130)
\* ---------------------------------------------------------------------------
USER_CACHE_TTL == 86400

\* the instants at which the timer is read: around every multiple of the ttl
Times ==
    {0} \cup UNION {{(d * USER_CACHE_TTL) - 1, d * USER_CACHE_TTL, (d * USER_CACHE_TTL) + 1} :
                    d \in 1..MaxDays}

\* a key derived from the username alone
get_cache_key_of_username(username, password) ==
    SubSeq(hexdigest(username), 1, 16)

\* combined = f"{username}:{password}", encoded (main.py:111-112)
Combined(username, password) == username \o <<58>> \o password

\* main.py:105-112
get_cache_key(username, password) ==
    SubSeq(hexdigest(Combined(username, password)), 1, 16)

\* key = get_cache_key(creds.username, creds.password), main.py:375 and 442:
\* the keys of the credentials that occur, computed once
KeyPairs == {<<c, get_cache_key(c.username, c.password)>> : c \in Credentials}
KeyOf(c) == (CHOOSE p \in KeyPairs : p[1] = c)[2]

\* cachetools.TTLCache: a cache is its set of links [key, value, expires]; seq is
\* the number of handler invocations started when the link was written (history only)
\* a dictionary without expiry in place of the TTLCache
FreshForever(e, t) == TRUE
Fresh(e, t) == IF ttl_strict THEN t < e.expires ELSE t <= e.expires
Contains(cache, k, t) == \E e \in cache : e.key = k /\ Fresh(e, t)
GetItem(cache, k) == (CHOOSE e \in cache : e.key = k).value
DelItem(cache, k) == {e \in cache : e.key # k}
SetItem(cache, k, v, t, n) ==
    {e \in cache : e.key # k /\ Fresh(e, t)}
        \cup {[key |-> k, value |-> v, expires |-> t + USER_CACHE_TTL, seq |-> n]}
Visible(cache, t) == {e \in cache : Fresh(e, t)}

\* both caches cleared whether or not a password is supplied
invalidate_all(login_cache, grades_cache, username, password, t) == <<{}, {}>>

\* main.py:114-130; the result is <<user_login_cache, user_grades_cache>>
invalidate_user_cache(login_cache, grades_cache, username, password, t) ==
    IF password # <<>>
    THEN LET key == KeyOf([username |-> username, password |-> password])
         IN <<IF Contains(login_cache, key, t) THEN DelItem(login_cache, key) ELSE login_cache,
              IF Contains(grades_cache, key, t) THEN DelItem(grades_cache, key)
              ELSE grades_cache>>
    ELSE <<{}, {}>>

\* ---------------------------------------------------------------------------
\* Scraper-level specification: scrape attempts one after the other, the Moodle
\* ones sharing the profile directory DEBUG_DIR (moodle_scraper.py:64).
\* ---------------------------------------------------------------------------
NoCredentials == [username |-> <<>>, password |-> <<>>]

ScrIdle ==
    [kind |-> "none", cred |-> NoCredentials, totp_secret |-> "None", close_driver |-> TRUE,
     profile |-> NoSession, ev |-> <<>>, success |-> FALSE, error |-> "", payload |-> "none"]

ScrapeMoodle(c, close_driver) ==
    /\ scr = ScrIdle
    /\ \E r \in MoodleGetDeadlinesRuns(c, moodle_profile, close_driver) :
        /\ scr' = [kind |-> "moodle", cred |-> c, totp_secret |-> "None",
                   close_driver |-> close_driver, profile |-> moodle_profile, ev |-> r.ev,
                   success |-> r.result.success, error |-> r.result.error,
                   payload |-> r.result.deadlines]
        /\ moodle_profile' = MoodleProfileAfter(c, moodle_profile, r.ev)
    /\ UNCHANGED serverVars

ScrapeBoss(c, totp_secret) ==
    /\ scr = ScrIdle
    /\ \E r \in BossGetDataRuns(c, totp_secret) :
        scr' = [kind |-> "boss", cred |-> c, totp_secret |-> totp_secret,
                close_driver |-> TRUE, profile |-> NoSession, ev |-> r.ev,
                success |-> (r.result.error = ""), error |-> r.result.error,
                payload |-> r.result.exams]
    /\ UNCHANGED <<moodle_profile, serverVars>>

ScrapeLsf(c, totp_secret) ==
    /\ scr = ScrIdle
    /\ \E r \in LsfGetCurrentClassesRuns(c, totp_secret) :
        scr' = [kind |-> "lsf", cred |-> c, totp_secret |-> totp_secret,
                close_driver |-> TRUE, profile |-> NoSession, ev |-> r.ev,
                success |-> r.result.success, error |-> r.result.error,
                payload |-> r.result.current_classes]
    /\ UNCHANGED <<moodle_profile, serverVars>>

\* ---------------------------------------------------------------------------
\* /login and /fetch-grades (main.py:367-551).  The handlers are coroutines on one
\* event loop (main.py:660-661) and the scrapers block it, so a handler runs
\* alone from its entry to its first await that suspends, and again from there
\* to its return.
\* ---------------------------------------------------------------------------
NoResponse == [success |-> FALSE, error |-> "", cred |-> NoCredentials, call |-> 0]

\* the dictionaries the handlers return; cred and call name the invocation that built
\* the dictionary from its own scrapes, which stands for the data it carries
Success(c, id) == [success |-> TRUE, error |-> "", cred |-> c, call |-> id]
Failure(c, id, err) == [success |-> FALSE, error |-> err, cred |-> c, call |-> id]

\* a handler invocation: status is "awaiting", "returned" or "raised" (an exception
\* left the handler), source tells whether its response came from the cache
Request(id, ep, c, force_refresh, status, source, resp, fail_text) ==
    [id |-> id, ep |-> ep, cred |-> c, force_refresh |-> force_refresh, status |-> status,
     source |-> source, resp |-> resp, fail_text |-> fail_text]

NoReturn == Request(0, "none", NoCredentials, FALSE, "returned", "none", NoResponse, FALSE)

\* substring tests on the error texts, main.py:394
InMessage(pattern, msg) ==
    \/ pattern = "Authentication failed"
        /\ msg \in {"Authentication failed", "Authentication failed or redirect timeout."}
    \/ pattern = "Login failed" /\ msg = "Login failed"

\* what the handlers see of a scrape
MoodleOutcomes(c, profile) ==
    {[success |-> r.result.success, error |-> r.result.error,
      deadlines |-> r.result.deadlines, fail_text |-> Has(r.ev, "see_fail_text"),
      profile |-> MoodleProfileAfter(c, profile, r.ev)] :
     r \in MoodleGetDeadlinesRuns(c, profile, TRUE)}
LsfOutcomes(c, totp_secret) ==
    {r.result : r \in LsfGetCurrentClassesRuns(c, totp_secret)}
BossOutcomes(c, totp_secret) ==
    {r.result : r \in BossGetDataRuns(c, totp_secret)}

Profiles == {NoSession} \cup {SessionOf(c) : c \in ValidCredentials}
\* the same, computed once
MoodleTable == {<<c, p, MoodleOutcomes(c, p)>> : c \in Credentials, p \in Profiles}
LsfTable == {<<c, t, LsfOutcomes(c, t)>> : c \in Credentials, t \in TotpSecrets}
BossTable == {<<c, t, BossOutcomes(c, t)>> : c \in Credentials, t \in TotpSecrets}
MoodleOutcomeOf(c, p) == (CHOOSE x \in MoodleTable : x[1] = c /\ x[2] = p)[3]
LsfOutcomeOf(c, t) == (CHOOSE x \in LsfTable : x[1] = c /\ x[2] = t)[3]
BossOutcomeOf(c, t) == (CHOOSE x \in BossTable : x[1] = c /\ x[2] = t)[3]

\* the timer between the membership test and the read of the same key
ReadTimes(t) == {t} \cup {u \in Times : u > t /\ \A v \in Times : v > t => u <= v}

\* main.py:376-378 and 443-445 once the membership test has passed
CachedRead(cache, key, id, ep, c, force_refresh) ==
    \E t \in ReadTimes(now) :
        /\ now' = t
        /\ ret' = IF Contains(cache, key, t)
                  THEN Request(id, ep, c, force_refresh, "returned", "cache",
                               GetItem(cache, key), FALSE)
                  ELSE Request(id, ep, c, force_refresh, "raised", "none",
                               Failure(c, id, "KeyError"), FALSE)
        /\ UNCHANGED <<inflight, moodle_profile>>

\* main.py:367-416: /login up to the await of save_deadlines
LoginCall(c, force_refresh, totp_secret) ==
    /\ calls < MaxCalls
    /\ LET id == calls + 1
           inv == IF force_refresh                                      \* 371-372
                  THEN invalidate_user_cache(user_login_cache, user_grades_cache,
                                             c.username, c.password, now)
                  ELSE <<user_login_cache, user_grades_cache>>
           key == KeyOf(c)                                              \* 375
       IN  /\ calls' = id
           /\ user_grades_cache' = inv[2]
           /\ IF Contains(inv[1], key, now)                             \* 376
              THEN /\ CachedRead(inv[1], key, id, "login", c, force_refresh)
                   /\ user_login_cache' = inv[1]
              ELSE \E m \in MoodleOutcomeOf(c, moodle_profile) :        \* 387-388
                     /\ moodle_profile' = m.profile
                     /\ now' = now
                     /\ IF ~m.success /\ (InMessage("Authentication failed", m.error)
                                          \/ InMessage("Login failed", m.error))
                        THEN /\ ret' = Request(id, "login", c, force_refresh, "returned",   \* 395
                                        "scrape", Failure(c, id, "invalid_credentials"),
                                        m.fail_text)
                             /\ user_login_cache' = inv[1]
                             /\ UNCHANGED inflight
                        \* 401-405: a failed LSF scrape only leaves current_classes empty
                        ELSE \E l \in LsfOutcomeOf(c, totp_secret) :
                               LET deadlines == IF m.success THEN m.deadlines ELSE "none"
                                   response == Success(c, id)
                               IN IF deadlines = "none"                 \* academic_service.py:11-12
                                  THEN /\ user_login_cache' =           \* 434
                                            SetItem(inv[1], key, response, now, id)
                                       /\ ret' = Request(id, "login", c, force_refresh,
                                                  "returned", "scrape", response, m.fail_text)
                                       /\ UNCHANGED inflight
                                  ELSE /\ Cardinality(inflight) < MaxInFlight
                                       /\ inflight' = inflight \cup        \* 411
                                            {Request(id, "login", c, force_refresh,
                                                     "awaiting", "scrape", response,
                                                     m.fail_text)}
                                       /\ user_login_cache' = inv[1]
                                       /\ ret' = NoReturn
    /\ UNCHANGED <<ttl_strict, scr, job>>

\* main.py:411-435: /login from the completion of save_deadlines to its return
LoginResume(r, saved) ==
    /\ r \in inflight /\ r.ep = "login"
    /\ inflight' = inflight \ {r}
    /\ IF saved
       THEN /\ user_login_cache' =                                      \* 434
                 SetItem(user_login_cache, KeyOf(r.cred), r.resp, now, calls)
            /\ ret' = [r EXCEPT !.status = "returned"]
       ELSE /\ ret' = [r EXCEPT !.status = "returned",                  \* 414-416
                                !.resp = Failure(r.cred, r.id, "error")]
            /\ UNCHANGED user_login_cache
    /\ UNCHANGED <<now, ttl_strict, user_grades_cache, moodle_profile, calls, scr, job>>

\* main.py:437-548: /fetch-grades up to the await of save_grades
FetchGradesCall(c, force_refresh, totp_secret) ==
    /\ calls < MaxCalls
    /\ LET id == calls + 1
           key == KeyOf(c)                                              \* 442
       IN  /\ calls' = id
           /\ IF ~force_refresh /\ Contains(user_grades_cache, key, now)   \* 443
              THEN CachedRead(user_grades_cache, key, id, "grades", c, force_refresh)
              ELSE \E b \in BossOutcomeOf(c, totp_secret) :             \* 447-448
                     /\ now' = now
                     /\ IF b.error # ""                                 \* 450-451
                        THEN /\ ret' = Request(id, "grades", c, force_refresh, "returned",
                                        "scrape", Failure(c, id, b.error), FALSE)
                             /\ UNCHANGED inflight
                        ELSE /\ Cardinality(inflight) < MaxInFlight
                             /\ inflight' = inflight \cup                  \* 548
                                  {Request(id, "grades", c, force_refresh, "awaiting",
                                           "scrape", Success(c, id), FALSE)}
                             /\ ret' = NoReturn
                     /\ UNCHANGED moodle_profile
    /\ UNCHANGED <<ttl_strict, user_login_cache, user_grades_cache, scr, job>>

\* main.py:548-551: /fetch-grades from the completion of save_grades to its return
FetchGradesResume(r, saved) ==
    /\ r \in inflight /\ r.ep = "grades"
    /\ inflight' = inflight \ {r}
    /\ IF saved
       THEN /\ user_grades_cache' =                                     \* 550
                 SetItem(user_grades_cache, KeyOf(r.cred), r.resp, now, calls)
            /\ ret' = [r EXCEPT !.status = "returned"]
       ELSE /\ ret' = [r EXCEPT !.status = "raised",     \* academic_service.py:38
                                !.resp = Failure(r.cred, r.id, "APIError")]
            /\ UNCHANGED user_grades_cache
    /\ UNCHANGED <<now, ttl_strict, user_login_cache, moodle_profile, calls, scr, job>>

\* the timer advances
Tick ==
    /\ \E t \in Times : t > now /\ now' = t
    /\ ret' = NoReturn
    /\ UNCHANGED <<ttl_strict, user_login_cache, user_grades_cache, moodle_profile,
                   inflight, calls, scr, job>>

\* no pure function is under examination
NoJob == [fn |-> "none"]

InitServer ==
    /\ now = 0
    /\ user_login_cache = {}
    /\ user_grades_cache = {}
    /\ moodle_profile = NoSession
    /\ inflight = {}
    /\ ret = NoReturn
    /\ calls = 0
    /\ scr = ScrIdle

Init ==
    /\ InitServer
    /\ ttl_strict \in BOOLEAN
    /\ job = NoJob

Next ==
    \/ \E c \in Credentials, f \in BOOLEAN, t \in TotpSecrets : LoginCall(c, f, t)
    \/ \E r \in inflight, saved \in BOOLEAN : LoginResume(r, saved)
    \/ \E c \in Credentials, f \in BOOLEAN, t \in TotpSecrets : FetchGradesCall(c, f, t)
    \/ \E r \in inflight, saved \in BOOLEAN : FetchGradesResume(r, saved)
    \/ Tick

Spec == Init /\ [][Next]_vars

\* the caller drops the scraper object once it has the result (main.py:387, 401, 447)
ScrapeDone ==
    /\ scr # ScrIdle
    /\ scr' = ScrIdle
    /\ UNCHANGED <<moodle_profile, serverVars>>

NextScrape ==
    \/ ScrapeDone
    \/ \E c \in Credentials, close_driver \in BOOLEAN : ScrapeMoodle(c, close_driver)
    \/ \E c \in Credentials, t \in TotpSecrets : ScrapeBoss(c, t)
    \/ \E c \in Credentials, t \in TotpSecrets : ScrapeLsf(c, t)

SpecScrape == Init /\ [][NextScrape]_vars

\* ---------------------------------------------------------------------------
\* Properties of the caches and the handlers
\* ---------------------------------------------------------------------------
Endpoints == {"login", "grades"}
CacheOf(ep, login_cache, grades_cache) == IF ep = "login" THEN login_cache ELSE grades_cache

\* the step starts a handler invocation, and that invocation
StartedNow == calls' = calls + 1
Started == IF ret'.id = calls' THEN ret' ELSE CHOOSE r \in inflight' : r.id = calls'

\* C1: one username with two different passwords has two different cache keys,
\* and a response served from a cache was built by an invocation that had the same
\* password whenever it had the same username.
C1_KeySeparatesSecrets ==
    /\ \A p \in KeyPairs, q \in KeyPairs :
          (p[1].username = q[1].username /\ p[1].password # q[1].password) => p[2] # q[2]
    /\ (ret.source = "cache" /\ ret.resp.cred.username = ret.cred.username)
          => ret.resp.cred.password = ret.cred.password

C1_Witness ==
    /\ ret.source = "cache"
    /\ ret.status = "returned"
    /\ ret.resp.cred = ret.cred
    /\ \E e \in CacheOf(ret.ep, user_login_cache, user_grades_cache) :
          /\ e.value.cred.username = ret.cred.username
          /\ e.value.cred.password # ret.cred.password

\* C4: once a force_refresh call has returned, the cache of its endpoint holds
\* for its key no entry that was written before the call started.
C4_ForceRefreshEvicts ==
    (ret.id > 0 /\ ret.force_refresh)
        => \A e \in Visible(CacheOf(ret.ep, user_login_cache, user_grades_cache), now) :
              e.key = KeyOf(ret.cred) => e.seq >= ret.id

\* C5: an entry stays in its cache, and is what a call started with its key and
\* without force_refresh returns, for as long as the timer has not passed the
\* expiry of the entry; and a response is served from a cache only then.
C5_Kept(ep, e) ==
    \E e2 \in CacheOf(ep, user_login_cache', user_grades_cache') : e2.key = e.key
C5_Served(ep, e) ==
    (StartedNow /\ Started.ep = ep /\ ~Started.force_refresh /\ KeyOf(Started.cred) = e.key)
        => /\ ret'.id = calls'
           /\ ret'.status = "returned"
           /\ ret'.source = "cache"
           /\ ret'.resp = e.value
C5_NeverAfter ==
    (StartedNow /\ ret'.id = calls' /\ ret'.source = "cache")
        => \E e \in CacheOf(ret'.ep, user_login_cache, user_grades_cache) :
              /\ e.key = KeyOf(ret'.cred)
              /\ e.value = ret'.resp
              /\ now' <= e.expires
\* the step starts a force_refresh call to the endpoint of e with the key of e
OwnRefresh(ep, e) ==
    /\ StartedNow
    /\ Started.ep = ep
    /\ Started.force_refresh
    /\ KeyOf(Started.cred) = e.key
\* the step starts a /login with force_refresh that invalidates the entry e
Purges(e) ==
    /\ StartedNow
    /\ Started.ep = "login"
    /\ Started.force_refresh
    /\ (Started.cred.password = <<>> \/ KeyOf(Started.cred) = e.key)

\* C5 as claimed: up to and including created_at + ttl, whatever calls to other
\* endpoints or with other credentials happen.
C5_WhateverCalls ==
    [][/\ \A ep \in Endpoints :
            \A e \in CacheOf(ep, user_login_cache, user_grades_cache) :
                (now' <= e.expires /\ ~OwnRefresh(ep, e))
                    => (C5_Kept(ep, e) /\ C5_Served(ep, e))
       /\ C5_NeverAfter]_vars

\* C5 amended: strictly before created_at + ttl, and unless a /login with
\* force_refresh for the same key or with an empty password is started.
C5_WithinTtl ==
    [][/\ \A ep \in Endpoints :
            \A e \in CacheOf(ep, user_login_cache, user_grades_cache) :
                (now' < e.expires /\ ~OwnRefresh(ep, e) /\ ~Purges(e))
                    => (C5_Kept(ep, e) /\ C5_Served(ep, e))
       /\ C5_NeverAfter]_vars

C5_Witness ==
    /\ ret.source = "cache"
    /\ ret.status = "returned"
    /\ ~ret.force_refresh
    /\ ret.id >= 3
    /\ ret.resp.call = 1
    /\ now = USER_CACHE_TTL - 1

\* C6: a /login with force_refresh and a non-empty password leaves the entries of
\* every other key in both caches as they were and leaves no earlier entry of its
\* own key; with an empty password it leaves no earlier entry in either cache.
Invalidating == StartedNow /\ Started.ep = "login" /\ Started.force_refresh
Duplicates(r, q) ==
    /\ r.id # q.id
    /\ r.ep = q.ep
    /\ r.cred = q.cred
    /\ ~r.force_refresh /\ ~q.force_refresh
    /\ r.source = "scrape" /\ q.source = "scrape"
C7_NoDuplicateScrape ==
    \A r \in inflight : \A q \in inflight \cup {ret} : ~Duplicates(r, q)

\* C9: /login answers "invalid_credentials" only when the Moodle login saw the
\* explicit failure text on the page after submitting the credentials.
C9_OnlyOnFailureText ==
    (ret.ep = "login" /\ ret.resp.error = "invalid_credentials") => ret.fail_text


\* ---------------------------------------------------------------------------
\* Properties of the scrapers
\* ---------------------------------------------------------------------------
Index(ev, e) == CHOOSE i \in 1..Len(ev) : ev[i] = e

\* C3: a scrape attempt that launched a browser session (Moodle: with close_driver
\* left at its default True) has quit that session by the time it returns, whether
\* it returns a result, a failed login or the error of an exception.
C3_SessionTerminated ==
    (scr.kind # "none" /\ scr.close_driver /\ Has(scr.ev, "launch"))
        => /\ Has(scr.ev, "quit")
           /\ scr.ev[Len(scr.ev)] = "quit"
           /\ Count(scr.ev, "launch") = 1

C3_Witness ==
    /\ scr.kind = "lsf"
    /\ ~scr.success
    /\ scr.error = "WebDriverException"
    /\ Has(scr.ev, "launch")
    /\ Has(scr.ev, "quit")

\* C2: a Moodle login never returns True through "session resumed" on a session
\* that a different credential tuple authenticated.
C2_NoForeignSession ==
    (scr.kind = "moodle" /\ Has(scr.ev, "session_valid"))
        => (~scr.profile.none
            /\ scr.profile.username = scr.cred.username
            /\ scr.profile.password = scr.cred.password)

\* C8: when a second-factor challenge appears and no TOTP seed was supplied, no
\* token is typed or submitted and the error returned is one that no other
\* failure of that scraper returns.
OtherErrors(kind) ==
    LET cs == Credentials
        plain(r) == ~(Has(r.ev, "challenge"))
    IN  IF kind = "boss"
        THEN {r.result.error : r \in {x \in UNION {BossGetDataRuns(c, t) :
                                        c \in cs, t \in TotpSecrets} : plain(x)}}
        ELSE {r.result.error : r \in {x \in UNION {LsfGetCurrentClassesRuns(c, t) :
                                        c \in cs, t \in TotpSecrets} : plain(x)}}

ChallengeWithoutSeed ==
    scr.kind \in {"boss", "lsf"} /\ Has(scr.ev, "challenge") /\ scr.totp_secret = "None"

C8_SecondFactorRequired ==
    ChallengeWithoutSeed
        => /\ ~Has(scr.ev, "type_token")
           /\ ~Has(scr.ev, "submit_token")
           /\ ~scr.success
           /\ scr.error \notin OtherErrors(scr.kind)

\* C10: when the entry URL lands in an already authenticated session, login
\* succeeds without locating, filling or submitting the credential fields.
CredentialFieldEvents ==
    {"find_user", "type_user", "find_pass", "type_pass", "find_submit", "submit"}

C10_ShortCircuit ==
    (scr.kind # "none" /\ Has(scr.ev, "session_valid"))
        => /\ \A i \in 1..Len(scr.ev) : scr.ev[i] \notin CredentialFieldEvents
           /\ scr.error \notin {"Authentication failed", "Login failed",
                                "Username field not found", "Password field not found"}

\* the runs of the scraper call recorded in x, and what a run returns
RunsOf(x) ==
    CASE x.kind = "moodle" ->
            {[ev |-> r.ev, error |-> r.result.error, payload |-> r.result.deadlines] :
             r \in MoodleGetDeadlinesRuns(x.cred, x.profile, x.close_driver)}
      [] x.kind = "boss" ->
            {[ev |-> r.ev, error |-> r.result.error, payload |-> r.result.exams] :
             r \in BossGetDataRuns(x.cred, x.totp_secret)}
      [] x.kind = "lsf" ->
            {[ev |-> r.ev, error |-> r.result.error, payload |-> r.result.current_classes] :
             r \in LsfGetCurrentClassesRuns(x.cred, x.totp_secret)}
      [] OTHER -> {}
WithoutDumpFailures(ev) == SelectSeq(ev, LAMBDA e : e \notin DumpFailures)

\* C11: a failing step of the diagnostic dump never changes what the scrape attempt
\* returns: the attempt returns what the same run returns when the dump succeeds,
\* whichever step of the dump failed.
C11_DumpNeverMasks ==
    scr.kind # "none"
        => \E r \in RunsOf(scr) :
              /\ r.ev = WithoutDumpFailures(scr.ev)
              /\ r.error = scr.error
              /\ r.payload = scr.payload

C11_Witness ==
    /\ scr.kind = "boss"
    /\ Has(scr.ev, "screenshot_error")
    /\ Has(scr.ev, "write_error")
    /\ scr.error = "Invalid Credentials"

\* C12: a scrape attempt that returns a failure after it launched a browser
\* session has called the diagnostic dump at least once.
C12_FailureDumps ==
    (scr.kind # "none" /\ ~scr.success /\ Has(scr.ev, "launch")) => Has(scr.ev, "dump")

\* ---------------------------------------------------------------------------
\* Texts.  A text is the sequence of its characters, so that the substring
\* tests, str.lower, str.replace and float of the code are computed on it.
\* ---------------------------------------------------------------------------
None == -1          \* Python's None where the code holds a number or None

\* key missing from a dict whose other values are texts
Absent == <<"<absent>">>

\* the sequence with the elements of f
Tuple(f) == SubSeq(f, 1, Len(f))

\* `pat in t`
InStr(pat, t) == \E i \in 0..(Len(t) - Len(pat)) : SubSeq(t, i + 1, i + Len(pat)) = pat

UpperLower ==
    {<<"A", "a">>, <<"B", "b">>, <<"C", "c">>, <<"D", "d">>, <<"E", "e">>, <<"F", "f">>,
     <<"G", "g">>, <<"H", "h">>, <<"I", "i">>, <<"J", "j">>, <<"K", "k">>, <<"L", "l">>,
     <<"M", "m">>, <<"N", "n">>, <<"O", "o">>, <<"P", "p">>, <<"Q", "q">>, <<"R", "r">>,
     <<"S", "s">>, <<"T", "t">>, <<"U", "u">>, <<"V", "v">>, <<"W", "w">>, <<"X", "x">>,
     <<"Y", "y">>, <<"Z", "z">>}

LowerChar(ch) ==
    IF \E p \in UpperLower : p[1] = ch THEN (CHOOSE p \in UpperLower : p[1] = ch)[2] ELSE ch

\* str.lower
lower(t) == Tuple([i \in 1..Len(t) |-> LowerChar(t[i])])

\* str.replace(',', '.')
replace_comma(t) == Tuple([i \in 1..Len(t) |-> IF t[i] = "," THEN "." ELSE t[i]])

Digits == <<"0", "1", "2", "3", "4", "5", "6", "7", "8", "9">>

IsDigit(ch) == \E d \in 1..Len(Digits) : Digits[d] = ch

DigitVal(ch) == (CHOOSE d \in 1..Len(Digits) : Digits[d] = ch) - 1

RECURSIVE NatOf(_)
NatOf(t) == IF Len(t) = 0 THEN 0 ELSE 10 * NatOf(SubSeq(t, 1, Len(t) - 1)) + DigitVal(t[Len(t)])

\* float(t) of an unsigned decimal with at most two decimals, in hundredths;
\* None where float raises ValueError
float(t) ==
    LET dots == {i \in 1..Len(t) : t[i] = "."}
        dot == IF dots = {} THEN Len(t) + 1 ELSE CHOOSE i \in dots : TRUE
        whole == SubSeq(t, 1, dot - 1)
        frac == SubSeq(t, dot + 1, Len(t))
    IN IF \/ Cardinality(dots) > 1
          \/ \E i \in 1..Len(t) : ~IsDigit(t[i]) /\ t[i] # "."
          \/ Len(whole) + Len(frac) = 0
          \/ Len(frac) > 2
       THEN None
       ELSE 100 * NatOf(whole) + (IF Len(frac) = 1 THEN 10 ELSE 1) * NatOf(frac)

\* round(num / den, 2) of two amounts in hundredths, ties to even
round2(num, den) ==
    LET q == num \div den
        r == num % den
    IN IF 2 * r > den \/ (2 * r = den /\ q % 2 = 1) THEN q + 1 ELSE q

RECURSIVE SumOver(_, _)
SumOver(f, S) == IF S = {} THEN 0 ELSE LET x == CHOOSE y \in S : TRUE IN f[x] + SumOver(f, S \ {x})

\* the string literals of the code, as texts
Literal ==
    [nr |-> <<"n", "r">>,
     id |-> <<"i", "d">>,
     ver |-> <<"v", "e", "r">>,
     text |-> <<"t", "e", "x", "t">>,
     bezeichnung |-> <<"b", "e", "z", "e", "i", "c", "h", "n", "u", "n", "g">>,
     sem |-> <<"s", "e", "m">>,
     note |-> <<"n", "o", "t", "e">>,
     grade |-> <<"g", "r", "a", "d", "e">>,
     status |-> <<"s", "t", "a", "t", "u", "s">>,
     vermerk |-> <<"v", "e", "r", "m", "e", "r", "k">>,
     ects |-> <<"e", "c", "t", "s">>,
     credit |-> <<"c", "r", "e", "d", "i", "t">>,
     bonus |-> <<"b", "o", "n", "u", "s">>,
     bestanden |-> <<"b", "e", "s", "t", "a", "n", "d", "e", "n">>,
     nicht_bestanden |-> <<"n", "i", "c", "h", "t", " ", "b", "e", "s", "t", "a", "n", "d", "e", "n">>,
     be |-> <<"b", "e">>,
     failed |-> <<"f", "a", "i", "l", "e", "d">>,
     passed |-> <<"p", "a", "s", "s", "e", "d">>,
     unknown |-> <<"U", "n", "k", "n", "o", "w", "n">>]


\* ---------------------------------------------------------------------------
\* BossScraper.extract_grades (boss_scraper.py:456-599) on the grade table of
\* the page: `header` is the texts of the th cells of its header row (empty:
\* the table has none), `rows` the texts of the td cells of its other rows.
\* ---------------------------------------------------------------------------
Fields == <<"id", "title", "semester", "grade", "status", "credits">>

\* boss_scraper.py:500-505, on the lower-cased header text
HeaderField(t) ==
    CASE InStr(Literal.nr, t) \/ (InStr(Literal.id, t) /\ ~InStr(Literal.ver, t)) -> "id"
      [] InStr(Literal.text, t) \/ InStr(Literal.bezeichnung, t) -> "title"
      [] InStr(Literal.sem, t) -> "semester"
      [] InStr(Literal.note, t) \/ InStr(Literal.grade, t) -> "grade"
      [] InStr(Literal.status, t) \/ InStr(Literal.vermerk, t) -> "status"
      [] InStr(Literal.ects, t) \/ InStr(Literal.credit, t) \/ InStr(Literal.bonus, t) -> "credits"
      [] OTHER -> "none"

DefaultHeaderMap ==
    [id |-> 0, title |-> 1, semester |-> 2, grade |-> 3, status |-> 4, credits |-> 5]

\* the fixed layout, whatever the header row says
HeaderMapByPosition(header) == DefaultHeaderMap

\* boss_scraper.py:490-517: the column of each field, None for a field no header names
HeaderMap(header) ==
    CHOOSE map \in
        {LET named(f) == {i \in 1..Len(header) : fields[i] = f}
             col(f) == IF named(f) = {} THEN None
                       ELSE (CHOOSE i \in named(f) : \A j \in named(f) : j <= i) - 1
             header_map == [id |-> col("id"), title |-> col("title"),
                            semester |-> col("semester"), grade |-> col("grade"),
                            status |-> col("status"), credits |-> col("credits")]
         IN IF \A i \in 1..Len(Fields) : header_map[Fields[i]] = None
            THEN DefaultHeaderMap ELSE header_map :
         fields \in {Tuple([i \in 1..Len(header) |-> HeaderField(lower(header[i]))])}} : TRUE

\* boss_scraper.py:522-533, 552-555: the text of the cell of a field
CellText(cells, idx) == IF idx # None /\ idx < Len(cells) THEN cells[idx + 1] ELSE Absent

Truthy(text) == text # Absent /\ Len(text) > 0

\* boss_scraper.py:519-569 for one data row: the exam record, whether its grade
\* entered grade_sum, and the credits it added to total_ects
ParseRow(cells, header_map) ==
    CHOOSE row \in
        {LET passing == status = Literal.bestanden \/ (grade # None /\ grade # 0 /\ grade <= 400)
         IN [exam |-> [title |-> CellText(cells, header_map.title),
                       exam_id |-> CellText(cells, header_map.id),
                       semester |-> CellText(cells, header_map.semester),
                       grade |-> grade,
                       status |-> status,
                       credits |-> IF c = None THEN 0 ELSE c],
             graded |-> grade # None /\ grade > 0,
             added |-> IF c # None /\ passing THEN c ELSE 0,
             counted |-> c # None /\ passing] :
         grade \in {LET grade_cell == CellText(cells, header_map.grade)
                    IN float(IF grade_cell = Absent THEN <<>> ELSE replace_comma(grade_cell))},
         status \in {CellText(cells, header_map.status)},
         c \in {LET credits_cell == CellText(cells, header_map.credits)
                IN IF credits_cell = Absent THEN None
                   ELSE float(replace_comma(credits_cell))}} : TRUE

\* the summary computed from the data rows alone
ComputedSummary(exams, total_ects, grade_sum, graded_count) ==
    [total_credits |-> total_ects,
     current_gpa |-> IF graded_count > 0 THEN round2(grade_sum, graded_count) ELSE 0]

\* boss_scraper.py:575-597
Summary(exams, total_ects, grade_sum, graded_count) ==
    LET last_exam == exams[Len(exams)]
        official_gpa == IF Len(exams) > 0 /\ last_exam.grade # None /\ last_exam.grade # 0
                        THEN last_exam.grade ELSE 0
        official_ects == IF Len(exams) > 0 /\ last_exam.credits # 0
                         THEN last_exam.credits ELSE 0
        computed == ComputedSummary(exams, total_ects, grade_sum, graded_count)
    IN [total_credits |-> IF official_ects > 0 THEN official_ects ELSE computed.total_credits,
        current_gpa |-> IF official_gpa > 0 THEN official_gpa ELSE computed.current_gpa]

extract_grades(header, rows) ==
    CHOOSE out \in
        {LET emitted == SelectSeq(parsed, LAMBDA p : Truthy(p.exam.title))
             exams == Tuple([i \in 1..Len(emitted) |-> emitted[i].exam])
             graded == {i \in 1..Len(parsed) : parsed[i].graded}
             total_ects == SumOver([i \in 1..Len(parsed) |-> parsed[i].added], 1..Len(parsed))
             grade_sum == SumOver([i \in 1..Len(parsed) |-> parsed[i].exam.grade], graded)
         IN [exams |-> exams,
             summary |-> Summary(exams, total_ects, grade_sum, Cardinality(graded)),
             parsed |-> parsed] :
         parsed \in {LET data_rows == SelectSeq(rows, LAMBDA cells : Len(cells) >= 3)
                         header_map == HeaderMap(header)
                     IN Tuple([i \in 1..Len(data_rows) |->
                               ParseRow(data_rows[i], header_map)])}} : TRUE

\* the texts of the cells of the tables
Cell ==
    [nr_h |-> <<"N", "r">>,
     text_h |-> <<"T", "e", "x", "t">>,
     sem_h |-> <<"S", "e", "m">>,
     note_h |-> <<"N", "o", "t", "e">>,
     status_h |-> <<"S", "t", "a", "t", "u", "s">>,
     ects_h |-> <<"E", "C", "T", "S">>,
     one |-> <<"1">>,
     ws |-> <<"W", "S", "2", "3">>,
     title_a |-> <<"A", "n", "a", "l", "y", "s", "i", "s", " ", "I">>,
     title_average |-> <<"D", "u", "r", "c", "h", "s", "c", "h", "n", "i", "t", "t", "s", "n", "o", "t", "e">>,
     grade_2_0 |-> <<"2", ",", "0">>,
     grade_5_0 |-> <<"5", ",", "0">>,
     grade_1_5 |-> <<"1", ",", "5">>,
     credits_0 |-> <<"0">>,
     credits_5 |-> <<"5">>,
     credits_9 |-> <<"9">>,
     credits_15 |-> <<"1", "5">>]


\* ---------------------------------------------------------------------------
\* fetch_grades builds its response from the scraper's data (main.py:452-525)
\* ---------------------------------------------------------------------------
\* main.py:466-470
is_passed(exam) ==
    LET status_val == IF exam.status = Absent THEN <<>> ELSE lower(exam.status)
    IN IF exam.grade # None THEN 100 <= exam.grade /\ exam.grade <= 400
       ELSE InStr(Literal.bestanden, status_val) \/ status_val = Literal.be

\* main.py:472-480; the scraper's records have no key "id" (boss_scraper.py:527)
DetailedGrade(exam) ==
    [id |-> <<>>,
     title |-> IF exam.title = Absent THEN Literal.unknown ELSE exam.title,
     grade |-> exam.grade,
     credits |-> exam.credits,
     semester |-> IF exam.semester = Absent THEN <<>> ELSE exam.semester,
     status |-> IF exam.status = Absent THEN <<>> ELSE exam.status,
     passed |-> is_passed(exam)]

\* main.py:452-525
GradesResponse(exams, summary) ==
    [detailed_grades |-> Tuple([i \in 1..Len(exams) |-> DetailedGrade(exams[i])]),
     ects_data |-> [total_ects |-> summary.total_credits,
                    courses_count |-> Len(exams),
                    gpa |-> summary.current_gpa]]

\* ---------------------------------------------------------------------------
\* Grade tables.  A table is given by the cells of its rows in the order
\* id, title, semester, grade, status, credits, by the arrangement of its
\* columns (column i of the page holds field perm[i]), by whether it has a
\* header row, and by the overall-average row closing it, if it has one.
\* ---------------------------------------------------------------------------
MaxRows == 2        \* exam rows of a table

Columns == 1..Len(Fields)

Identity == [i \in Columns |-> i]

ColumnOrders == {p \in [Columns -> Columns] : \A i, j \in Columns : p[i] = p[j] => i = j}

ExamRows ==
    {<<Cell.one, title, Cell.ws, grade, status, credits>> :
        title \in {<<>>, Cell.title_a},
        grade \in {<<>>, Cell.grade_2_0, Cell.grade_5_0},
        status \in {Literal.bestanden, Literal.nicht_bestanden},
        credits \in {Cell.credits_5, Cell.credits_9}}

NoAverage == <<>>

AverageRows ==
    {<<<<>>, title, <<>>, grade, <<>>, credits>> :
        title \in {<<>>, Cell.title_average},
        grade \in {<<>>, Cell.grade_1_5}, credits \in {Cell.credits_0, Cell.credits_15}}

\* every table of at most MaxRows exam rows in the standard column order, and
\* the example table of the interface description in every column order
GradeTables ==
    LET example == << <<Cell.one, Cell.title_a, Cell.ws, Cell.grade_2_0, Literal.bestanden,
                        Cell.credits_9>>,
                      <<Cell.one, Cell.title_a, Cell.ws, <<>>, Literal.nicht_bestanden,
                        Cell.credits_5>> >>
    IN {[header |-> h, perm |-> Identity, rows |-> rows, average |-> a] :
           h \in BOOLEAN, rows \in UNION {[1..n -> ExamRows] : n \in 0..MaxRows},
           a \in {NoAverage} \cup AverageRows}
       \cup
       {[header |-> h, perm |-> p, rows |-> rows, average |-> a] :
           h \in BOOLEAN, p \in ColumnOrders, rows \in {example},
           a \in {NoAverage,
                  <<<<>>, Cell.title_average, <<>>, Cell.grade_1_5, <<>>, Cell.credits_15>>}}

Arrange(cells, perm) == Tuple([i \in Columns |-> cells[perm[i]]])

\* the th texts of the page
HeaderOf(t) ==
    IF t.header
    THEN Arrange(<<Cell.nr_h, Cell.text_h, Cell.sem_h, Cell.note_h, Cell.status_h, Cell.ects_h>>,
                 t.perm)
    ELSE <<>>

\* the td texts of the page, row by row
RowsOf(t) ==
    LET all == IF t.average = NoAverage THEN t.rows ELSE Append(t.rows, t.average)
    IN Tuple([i \in 1..Len(all) |-> Arrange(all[i], t.perm)])

GradesJob(t) ==
    [fn |-> "extract_grades", state |-> "called", table |-> t,
     exams |-> <<>>, summary |-> [total_credits |-> 0, current_gpa |-> 0], parsed |-> <<>>,
     response |-> GradesResponse(<<>>, [total_credits |-> 0, current_gpa |-> 0])]

InitGrades ==
    /\ InitServer
    /\ ttl_strict = TRUE
    /\ job \in {GradesJob(t) : t \in GradeTables}

\* scraper.get_data() reaches extract_grades (boss_scraper.py:640)
ExtractGrades ==
    /\ job.fn = "extract_grades" /\ job.state = "called"
    /\ \E r \in {extract_grades(HeaderOf(job.table), RowsOf(job.table))} :
           job' = [job EXCEPT !.state = "extracted", !.exams = r.exams,
                              !.summary = r.summary, !.parsed = r.parsed]
    /\ UNCHANGED <<moodle_profile, scr, now, ttl_strict, user_login_cache, user_grades_cache,
                   inflight, ret, calls>>

\* fetch_grades turns the data into its response (main.py:452-525)
BuildGradesResponse ==
    /\ job.fn = "extract_grades" /\ job.state = "extracted"
    /\ job' = [job EXCEPT !.state = "responded",
                          !.response = GradesResponse(job.exams, job.summary)]
    /\ UNCHANGED <<moodle_profile, scr, now, ttl_strict, user_login_cache, user_grades_cache,
                   inflight, ret, calls>>

NextGrades == ExtractGrades \/ BuildGradesResponse

SpecGrades == InitGrades /\ [][NextGrades]_vars

\* ---------------------------------------------------------------------------
\* The pass rule of the degree audit (degree_audit.py:93-118)
\* ---------------------------------------------------------------------------
\* the grade decides, whatever the status
AuditPassedByGrade(exam) ==
    \/ exam.grade # None /\ exam.grade # 0 /\ exam.grade <= 400
    \/ exam.status # Absent /\ InStr(Literal.bestanden, lower(exam.status))

AuditPassed(exam) ==
    LET status == IF exam.status = Absent THEN <<>> ELSE lower(exam.status)
        graded_pass == exam.grade # None /\ exam.grade # 0 /\ exam.grade <= 400
    IN IF InStr(Literal.nicht_bestanden, status) \/ InStr(Literal.failed, status) THEN FALSE
       ELSE graded_pass \/ InStr(Literal.bestanden, status) \/ InStr(Literal.passed, status)

\* ---------------------------------------------------------------------------
\* Properties of the grade extraction
\* ---------------------------------------------------------------------------
Extracted == job.fn = "extract_grades" /\ job.state # "called"

Responded == job.fn = "extract_grades" /\ job.state = "responded"

Emitted == {i \in 1..Len(job.parsed) : Truthy(job.parsed[i].exam.title)}

\* C13: a row whose status is "nicht bestanden" is a failed row whatever its
\* grade: its credits are not added to the extracted total, its passed flag in
\* the /fetch-grades response is false and the degree audit does not take it
\* as passed.
C13_FailedStatusIsFailed ==
    Responded =>
        /\ \A i \in 1..Len(job.parsed) :
               job.parsed[i].exam.status = Literal.nicht_bestanden => ~job.parsed[i].counted
        /\ \A i \in 1..Len(job.exams) :
               job.exams[i].status = Literal.nicht_bestanden =>
                   /\ ~job.response.detailed_grades[i].passed
                   /\ ~AuditPassed(job.exams[i])

\* C14: without a closing average row the total credits are the sum of the
\* credits of the rows whose status or grade indicates a pass.
C14_TotalIsSumOfPassing ==
    (Extracted /\ job.table.average = NoAverage) =>
        job.summary.total_credits =
            SumOver([i \in 1..Len(job.parsed) |-> job.parsed[i].exam.credits],
                    {i \in 1..Len(job.parsed) : job.parsed[i].counted})

\* the graded passing rows that became exam records
GradedPassing ==
    {i \in Emitted : /\ job.parsed[i].exam.grade # None
                     /\ job.parsed[i].exam.grade > 0
                     /\ job.parsed[i].exam.grade <= 400
                     /\ job.parsed[i].exam.status # Literal.nicht_bestanden}

\* C15: without a closing average row current_gpa is the mean of the graded
\* passing rows only.
C15_GpaIsMeanOfPassing ==
    (Extracted /\ job.table.average = NoAverage /\ GradedPassing # {}) =>
        job.summary.current_gpa =
            round2(SumOver([i \in 1..Len(job.parsed) |-> job.parsed[i].exam.grade],
                           GradedPassing),
                   Cardinality(GradedPassing))

\* the table closes with an average row, and its columns are where the
\* extraction looks for them
HasAverageRow ==
    /\ Extracted
    /\ job.table.average # NoAverage
    /\ (job.table.header \/ job.table.perm = Identity)

AverageGrade == float(replace_comma(job.table.average[4]))

AverageCredits == float(replace_comma(job.table.average[6]))

\* C16 as stated: with a closing average row the reported average is that
\* row's grade field and the reported total credits are its credit figure.
C16_AverageRowReported ==
    HasAverageRow =>
        /\ job.summary.current_gpa = AverageGrade
        /\ job.summary.total_credits = AverageCredits

\* C16: a closing average row that has a title text supplies the reported
\* average where its grade field is a positive number and the reported total
\* credits where its credit figure is a positive number; where it is not, the
\* value computed from the rows is reported: the rounded mean of the positive
\* grades, the sum of the credits of the rows counted as passing.
C16_PositiveAverageRowReported ==
    (HasAverageRow /\ Truthy(job.table.average[2])) =>
        LET n == Len(job.parsed)
            graded == {i \in 1..n : job.parsed[i].graded}
            computed_gpa ==
                IF graded = {} THEN 0
                ELSE round2(SumOver([i \in 1..n |-> job.parsed[i].exam.grade], graded),
                            Cardinality(graded))
            computed_credits ==
                SumOver([i \in 1..n |-> job.parsed[i].exam.credits],
                        {i \in 1..n : job.parsed[i].counted})
        IN /\ job.summary.current_gpa =
                  IF AverageGrade # None /\ AverageGrade > 0 THEN AverageGrade ELSE computed_gpa
           /\ job.summary.total_credits =
                  IF AverageCredits # None /\ AverageCredits > 0 THEN AverageCredits
                  ELSE computed_credits

C16_Witness ==
    /\ HasAverageRow
    /\ job.table.average = <<<<>>, Cell.title_average, <<>>, Cell.grade_1_5, <<>>, Cell.credits_15>>
    /\ Len(job.table.rows) = 2
    /\ job.summary = [total_credits |-> 1500, current_gpa |-> 150]

\* the records of a table read in the fixed order id, title, semester, grade,
\* status, credits
ByPosition(rows) ==
    LET data == SelectSeq(rows, LAMBDA r : Len(r) >= 3 /\ Len(r[2]) > 0)
    IN Tuple([i \in 1..Len(data) |->
              LET c == float(replace_comma(data[i][6]))
              IN [title |-> data[i][2], exam_id |-> data[i][1], semester |-> data[i][3],
                  grade |-> float(replace_comma(data[i][4])), status |-> data[i][5],
                  credits |-> IF c = None THEN 0 ELSE c]])

\* C17: the columns are attributed by the keywords of the header, not by their
\* position: however the columns of a table with a header row are arranged,
\* the exam records are those of the table in the order id, title, semester,
\* grade, status, credits; a table without a header row is read in that fixed
\* order.
C17_ColumnsByHeader ==
    Extracted =>
        IF job.table.header
        THEN job.exams = ByPosition(RowsOf([job.table EXCEPT !.perm = Identity]))
        ELSE job.exams = ByPosition(RowsOf(job.table))

C17_Witness ==
    /\ Extracted
    /\ job.table.header
    /\ job.table.perm = <<6, 5, 4, 3, 2, 1>>
    /\ Len(job.exams) = 3
    /\ job.exams[1].title = Cell.title_a
    /\ job.exams[1].grade = 200
    /\ job.exams[1].credits = 900

\* ---------------------------------------------------------------------------
\* MoodleScraper.extract_deadlines (moodle_scraper.py:140-251) on the activity
\* anchors of the dashboard page.  An anchor is given by its text, by whether
\* it stands in an event row and the label of that row, by the date dateparser
\* reads from the row (NoDate: none) and by its href, which urlparse splits
\* into its path and the key/value pairs of its query.
\* ---------------------------------------------------------------------------
MaxAnchors == 2     \* activity anchors of a page

LeapCentury == 2400 \* a leap year whose century before is none

Name ==
    [task |-> <<"A", "u", "f", "g", "a", "b", "e", " ", "1">>, show |-> <<"A", "n", "z", "e", "i", "g", "e", "n">>, quiz |-> <<"Q", "u", "i", "z", " ", "1">>]

\* moodle_scraper.py:176
GenericNames ==
    {<<"a", "n", "z", "e", "i", "g", "e", "n">>,
     <<"a", "b", "g", "e", "b", "e", "n">>,
     <<"d", "e", "t", "a", "i", "l", "s">>,
     <<"s", "u", "b", "m", "i", "s", "s", "i", "o", "n">>,
     <<"a", "u", "f", "g", "a", "b", "e", "n", "l", "ö", "s", "u", "n", "g", " ", "h", "i", "n", "z", "u", "f", "ü", "g", "e", "n">>}

NoDate == [year |-> 0, month |-> 0, day |-> 0]

\* a date of the calendar
IsDate(d) ==
    LET leap == (d.year % 4 = 0 /\ d.year % 100 # 0) \/ d.year % 400 = 0
        days == IF d.month = 2 THEN (IF leap THEN 29 ELSE 28)
                ELSE IF d.month \in {4, 6, 9, 11} THEN 30 ELSE 31
    IN d.year >= 1 /\ d.month \in 1..12 /\ d.day \in 1..days

RECURSIVE ZeroPad(_, _)
\* n in decimal, w digits wide
ZeroPad(n, w) == IF w = 0 THEN <<>> ELSE Append(ZeroPad(n \div 10, w - 1), Digits[(n % 10) + 1])

\* datetime.isoformat of a date at midnight
isoformat(d) ==
    ZeroPad(d.year, 4) \o <<"-">> \o ZeroPad(d.month, 2) \o <<"-">> \o ZeroPad(d.day, 2)
        \o <<"T", "0", "0", ":", "0", "0", ":", "0", "0">>

\* moodle_scraper.py:225-228: the due date, or "error" where datetime.replace raises
DueDate(dt, current_year) ==
    IF dt = NoDate THEN [kind |-> "return", val |-> <<>>]
    ELSE IF dt.year > current_year + 50
         THEN IF IsDate([dt EXCEPT !.year = dt.year - 100])
              THEN [kind |-> "return", val |-> isoformat([dt EXCEPT !.year = dt.year - 100])]
              ELSE [kind |-> "raise", val |-> <<>>]
         ELSE [kind |-> "return", val |-> isoformat(dt)]

\* deduplication on the href as it stands
RawUrl(href) == href

\* moodle_scraper.py:230-235: parse_qs drops the pairs with a blank value,
\* only the key 'id' is kept, urlencode writes one pair for each of its values
NormalizedUrl(href) ==
    [href EXCEPT !.query = SelectSeq(href.query,
                                     LAMBDA kv : kv[1] = <<"i", "d">> /\ Len(kv[2]) > 0)]

\* moodle_scraper.py:168-247 for one anchor
ScanLink(link, current_year) ==
    LET generic == lower(link.name) \in GenericNames
        name == IF generic /\ link.parent /\ link.label # Absent THEN link.label ELSE link.name
        due == DueDate(link.dt, current_year)
    IN IF Len(link.name) = 0 \/ ~link.parent \/ due.kind = "raise"
       THEN [skip |-> TRUE, record |-> <<>>, normalized_url |-> <<>>]
       ELSE [skip |-> FALSE,
             record |-> [activity_name |-> name, course_name |-> <<>>,
                         due_date |-> due.val, url |-> link.href],
             normalized_url |-> NormalizedUrl(link.href)]

RECURSIVE ScanLinks(_, _, _, _)
\* moodle_scraper.py:167-247: the loop over the anchors
ScanLinks(links, current_year, deadlines, seen_urls) ==
    IF Len(links) = 0 THEN deadlines
    ELSE LET r == ScanLink(Head(links), current_year)
         IN IF r.skip \/ r.normalized_url \in seen_urls
            THEN ScanLinks(Tail(links), current_year, deadlines, seen_urls)
            ELSE ScanLinks(Tail(links), current_year, Append(deadlines, r.record),
                           seen_urls \cup {r.normalized_url})

extract_deadlines(links, current_year) == ScanLinks(links, current_year, <<>>, {})

\* ---------------------------------------------------------------------------
\* Dashboard pages
\* ---------------------------------------------------------------------------
ActionPair == <<<<"a", "c", "t", "i", "o", "n">>, <<"e", "d", "i", "t">>>>

Hrefs ==
    {[path |-> p, query |-> front \o id] :
        p \in {"/mod/assign/view.php", "/mod/quiz/view.php"},
        id \in {<<>>, <<<<<<"i", "d">>, <<"1">>>>>>},
        front \in {<<>>, <<ActionPair>>}}

Anchors ==
    {[name |-> n, parent |-> par, label |-> Name.quiz, dt |-> NoDate, href |-> h] :
        n \in {<<>>, Name.task, Name.show}, par \in BOOLEAN, h \in Hrefs}

DatesAround(current_year) ==
    {d \in [year : {current_year, current_year + 50, current_year + 51, current_year + 60,
                    LeapCentury},
            month : {2, 12}, day : {28, 29, 31}] : IsDate(d)}

DatedAnchor(d) ==
    [name |-> Name.task, parent |-> TRUE, label |-> Name.quiz, dt |-> d,
     href |-> [path |-> "/mod/assign/view.php", query |-> <<<<<<"i", "d">>, <<"1">>>>>>]]

DeadlinesJob(links, current_year) ==
    [fn |-> "extract_deadlines", state |-> "called", links |-> links,
     current_year |-> current_year, deadlines |-> <<>>, before |-> <<>>, twice |-> FALSE]

InitDeadlines ==
    /\ InitServer
    /\ ttl_strict = TRUE
    /\ job \in {DeadlinesJob(links, 2026) :
                   links \in UNION {[1..n -> Anchors] : n \in 0..MaxAnchors}}
               \cup UNION {{DeadlinesJob(<<DatedAnchor(d)>>, y) : d \in DatesAround(y)} :
                           y \in {2026, 2350}}

\* get_deadlines reaches extract_deadlines (moodle_scraper.py:260)
ExtractDeadlines ==
    /\ job.fn = "extract_deadlines" /\ job.state = "called"
    /\ job' = [job EXCEPT !.state = "returned",
                          !.deadlines = extract_deadlines(job.links, job.current_year)]
    /\ UNCHANGED <<moodle_profile, scr, now, ttl_strict, user_login_cache, user_grades_cache,
                   inflight, ret, calls>>

\* each anchor followed by its copy, or the copies after all the anchors; a
\* copy may carry one more parameter that is not the id
Twice(links, action, adjacent) ==
    LET Copy(link) ==
            IF action THEN [link EXCEPT !.href.query = Append(link.href.query, ActionPair)]
            ELSE link
    IN IF adjacent
       THEN Tuple([i \in 1..(2 * Len(links)) |->
                   IF i % 2 = 1 THEN links[(i + 1) \div 2] ELSE Copy(links[i \div 2])])
       ELSE links \o Tuple([i \in 1..Len(links) |-> Copy(links[i])])

\* the dashboard is rendered with every activity anchor twice and scraped again
ShowTwice(action, adjacent) ==
    /\ job.fn = "extract_deadlines" /\ job.state = "returned" /\ ~job.twice
    /\ job' = [job EXCEPT !.state = "called", !.twice = TRUE,
                          !.links = Twice(job.links, action, adjacent),
                          !.before = job.deadlines, !.deadlines = <<>>]
    /\ UNCHANGED <<moodle_profile, scr, now, ttl_strict, user_login_cache, user_grades_cache,
                   inflight, ret, calls>>

NextDeadlines ==
    \/ ExtractDeadlines
    \/ \E action, adjacent \in BOOLEAN : ShowTwice(action, adjacent)

SpecDeadlines == InitDeadlines /\ [][NextDeadlines]_vars

\* ---------------------------------------------------------------------------
\* Properties of the deadline extraction
\* ---------------------------------------------------------------------------
DeadlinesReturned == job.fn = "extract_deadlines" /\ job.state = "returned"

\* C18: extract_deadlines never returns two records whose URLs are equal once
\* only the 'id' parameter of their query is kept, and the page showing every
\* activity anchor twice, the copies also with a further parameter that is not
\* the id, yields as many records as the page showing each anchor once.
C18_Deduplicates ==
    DeadlinesReturned =>
        /\ \A i, j \in 1..Len(job.deadlines) :
               NormalizedUrl(job.deadlines[i].url) = NormalizedUrl(job.deadlines[j].url)
                   => i = j
        /\ job.twice => Len(job.deadlines) = Len(job.before)

C18_Witness ==
    /\ DeadlinesReturned
    /\ job.twice
    /\ Len(job.links) = 4
    /\ Len(job.deadlines) = 2
    /\ \E i \in 1..Len(job.links) : job.links[i].href.query # NormalizedUrl(job.links[i].href).query

\* the year of an ISO date text
YearOf(due_date) == NatOf(SubSeq(due_date, 1, 4))

\* C19: a parsed year greater than the current year plus 50 is reported 100
\* years earlier, any other year is reported as parsed.
C19_CenturyRollover ==
    (DeadlinesReturned /\ Len(job.links) = 1 /\ job.links[1].dt # NoDate) =>
        /\ Len(job.deadlines) = 1
        /\ YearOf(job.deadlines[1].due_date) =
               IF job.links[1].dt.year > job.current_year + 50
               THEN job.links[1].dt.year - 100
               ELSE job.links[1].dt.year

\* ---------------------------------------------------------------------------
\* degree_audit.py: normalize_module_id (47-65) and perform_audit (68-206)
\* ---------------------------------------------------------------------------
MaxExams == 2       \* exam records handed to the audit
MaxModules == 2     \* mandatory modules of the curriculum

\* str.upper
upper(t) ==
    Tuple([i \in 1..Len(t) |->
           IF \E p \in UpperLower : p[2] = t[i]
           THEN (CHOOSE p \in UpperLower : p[2] = t[i])[1] ELSE t[i]])

\* degree_audit.py:47-65
normalize_module_id(module_id) ==
    IF Len(module_id) = 0 THEN <<>>
    ELSE LET normalized == SelectSeq(upper(module_id), LAMBDA ch : ch \notin {"-", " "})
             digits == {i \in 1..Len(normalized) : IsDigit(normalized[i])}
             first == CHOOSE i \in digits : \A j \in digits : i <= j
             last == CHOOSE j \in first..Len(normalized) :
                         /\ \A k \in first..j : k \in digits
                         /\ (j + 1) \notin digits
         IN IF digits = {} THEN normalized ELSE SubSeq(normalized, first, last)

\* degree_audit.py:88-151, 186: exams are the scraper's exam records,
\* mandatory_modules the module_id texts of curriculum['mandatory_modules']
perform_audit(passed_exams, mandatory_modules) ==
    LET counted == {i \in 1..Len(passed_exams) :
                       /\ AuditPassed(passed_exams[i])
                       /\ Len(normalize_module_id(passed_exams[i].exam_id)) > 0}
        passed_ids == {normalize_module_id(passed_exams[i].exam_id) : i \in counted}
        total_earned == SumOver([i \in 1..Len(passed_exams) |-> passed_exams[i].credits],
                                counted)
        named == {i \in 1..Len(mandatory_modules) :
                     Len(normalize_module_id(mandatory_modules[i])) > 0}
        mandatory_ids == {normalize_module_id(mandatory_modules[i]) : i \in named}
        \* mandatory_by_id keeps the module named last for an id
        mandatory_by_id(mod_id) ==
            mandatory_modules[CHOOSE i \in named :
                                  /\ normalize_module_id(mandatory_modules[i]) = mod_id
                                  /\ \A j \in named :
                                         normalize_module_id(mandatory_modules[j]) = mod_id
                                             => j <= i]
    IN [total_credits_earned |-> total_earned \div 100,
        missing_mandatory |-> {mandatory_by_id(mod_id) : mod_id \in mandatory_ids \ passed_ids},
        completed_count |-> Cardinality(passed_ids)]

ModuleId ==
    [inf100 |-> <<"I", "N", "F", "-", "1", "0", "0">>, inf200 |-> <<"I", "N", "F", "-", "2", "0", "0">>, inf300 |-> <<"I", "N", "F", "-", "3", "0", "0">>,
     inf999 |-> <<"I", "N", "F", "-", "9", "9", "9">>, mat100 |-> <<"M", "A", "T", "-", "1", "0", "0">>, lower100 |-> <<"i", "n", "f", " ", "1", "0", "0">>, none |-> <<>>]

AuditExams ==
    {[exam_id |-> id, grade |-> o[1], status |-> o[2], credits |-> c] :
        id \in {ModuleId.inf100, ModuleId.mat100, ModuleId.lower100, ModuleId.none},
        o \in {<<200, Literal.bestanden>>, <<None, Literal.bestanden>>,
               <<500, Literal.nicht_bestanden>>, <<200, Literal.nicht_bestanden>>},
        c \in {900, 750}}

\* the audit of test_audit_pipeline.py:21-52
ExampleAudit ==
    [passed_exams |->
        <<[exam_id |-> ModuleId.inf100, grade |-> 200, status |-> Literal.bestanden,
           credits |-> 900],
          [exam_id |-> ModuleId.inf200, grade |-> 100, status |-> Literal.bestanden,
           credits |-> 900],
          [exam_id |-> ModuleId.inf999, grade |-> 500, status |-> Literal.nicht_bestanden,
           credits |-> 500]>>,
     mandatory_modules |-> <<ModuleId.inf100, ModuleId.inf300>>]

Audits ==
    {ExampleAudit} \cup
    {[passed_exams |-> e, mandatory_modules |-> m] :
        e \in UNION {[1..n -> AuditExams] : n \in 0..MaxExams},
        m \in UNION {[1..n -> {ModuleId.inf100, ModuleId.inf300, ModuleId.mat100,
                               ModuleId.none}] :
                        n \in 0..MaxModules}}

AuditJob(a) ==
    [fn |-> "perform_audit", state |-> "called", passed_exams |-> a.passed_exams,
     mandatory_modules |-> a.mandatory_modules,
     audit_result |-> [total_credits_earned |-> 0, missing_mandatory |-> {},
                       completed_count |-> 0]]

InitAudit ==
    /\ InitServer
    /\ ttl_strict = TRUE
    /\ job \in {AuditJob(a) : a \in Audits}

\* quick_audit and the audit route call perform_audit (degree_audit.py:236)
PerformAudit ==
    /\ job.fn = "perform_audit" /\ job.state = "called"
    /\ job' = [job EXCEPT !.state = "returned",
                          !.audit_result = perform_audit(job.passed_exams,
                                                         job.mandatory_modules)]
    /\ UNCHANGED <<moodle_profile, scr, now, ttl_strict, user_login_cache, user_grades_cache,
                   inflight, ret, calls>>

NextAudit == PerformAudit

SpecAudit == InitAudit /\ [][NextAudit]_vars

\* ---------------------------------------------------------------------------
\* Properties of the degree audit
\* ---------------------------------------------------------------------------
AuditReturned == job.fn = "perform_audit" /\ job.state = "returned"

\* the exam is passed: not marked "nicht bestanden", and a grade up to 4.0 or
\* the mark "bestanden"
ExamIsPassed(exam) ==
    /\ ~InStr(Literal.nicht_bestanden, lower(exam.status))
    /\ \/ exam.grade # None /\ exam.grade > 0 /\ exam.grade <= 400
       \/ InStr(Literal.bestanden, lower(exam.status))

PassedExams == {i \in 1..Len(job.passed_exams) : ExamIsPassed(job.passed_exams[i])}

\* C20 as stated: missing_mandatory holds exactly the mandatory modules no
\* passed exam belongs to, a failed exam satisfies no module and adds no
\* credits, and the credits of every passed exam are counted.
C20_AuditCountsEveryPassedExam ==
    AuditReturned =>
        /\ job.audit_result.missing_mandatory =
               {job.mandatory_modules[m] : m \in
                   {k \in 1..Len(job.mandatory_modules) :
                       \A i \in PassedExams :
                           normalize_module_id(job.passed_exams[i].exam_id)
                               # normalize_module_id(job.mandatory_modules[k])}}
        /\ job.audit_result.total_credits_earned =
               SumOver([i \in 1..Len(job.passed_exams) |-> job.passed_exams[i].credits],
                       PassedExams) \div 100

\* the passed exams that carry a module number
IdentifiedPassedExams ==
    {i \in PassedExams : Len(normalize_module_id(job.passed_exams[i].exam_id)) > 0}

\* C20: modules and exams are compared by their normalized id.  The audit
\* reports as missing, for each non-empty normalized id of a mandatory module
\* that no passed exam shares, the module listed last with that id, and
\* nothing else; a failed exam satisfies no module and adds no credits; the
\* credits of every passed exam with a non-empty normalized id are counted,
\* and total_credits_earned is the whole part of their sum.
C20_AuditCountsIdentifiedPassedExams ==
    AuditReturned =>
        /\ job.audit_result.missing_mandatory =
               {job.mandatory_modules[m] : m \in
                   {k \in 1..Len(job.mandatory_modules) :
                       /\ Len(normalize_module_id(job.mandatory_modules[k])) > 0
                       /\ \A j \in (k + 1)..Len(job.mandatory_modules) :
                              normalize_module_id(job.mandatory_modules[j])
                                  # normalize_module_id(job.mandatory_modules[k])
                       /\ \A i \in IdentifiedPassedExams :
                              normalize_module_id(job.passed_exams[i].exam_id)
                                  # normalize_module_id(job.mandatory_modules[k])}}
        /\ job.audit_result.total_credits_earned =
               SumOver([i \in 1..Len(job.passed_exams) |-> job.passed_exams[i].credits],
                       IdentifiedPassedExams) \div 100

C20_Witness ==
    /\ AuditReturned
    /\ Len(job.passed_exams) = 3
    /\ job.passed_exams[3].status = Literal.nicht_bestanden
    /\ job.audit_result.total_credits_earned = 18
    /\ job.audit_result.missing_mandatory = {ModuleId.inf300}

\* ---------------------------------------------------------------------------
\* Page functions of the exam-records navigator (boss_scraper.py) and of the
\* lecture navigator that inherits from it (lsf_scraper.py): the ranked
\* selector lookups of the login forms, the choice of the "show achievements"
\* link, the degree identity and its way into the /fetch-grades response.
\* ---------------------------------------------------------------------------
\* the catalogues: number of candidates, and what the code does when the
\* lookup leaves its variable None
\* boss_scraper.py:119-222
BossLookups ==
    {[scraper |-> "boss", field |-> "username", n |-> 4, missing |-> "raise"],       \* 119-138
     [scraper |-> "boss", field |-> "password", n |-> 3, missing |-> "raise"],       \* 144-160
     [scraper |-> "boss", field |-> "submit", n |-> 4, missing |-> "fallback"],      \* 166-186
     [scraper |-> "boss", field |-> "token", n |-> 4, missing |-> "raise"]}          \* 206-222
\* lsf_scraper.py:85-153
LsfLookups ==
    {[scraper |-> "lsf", field |-> "username", n |-> 4, missing |-> "raise"],        \* 85-97
     [scraper |-> "lsf", field |-> "password", n |-> 4, missing |-> "raise"],        \* 102-113
     [scraper |-> "lsf", field |-> "submit", n |-> 4, missing |-> "fallback"],       \* 118-131
     [scraper |-> "lsf", field |-> "token", n |-> 3, missing |-> "skip"]}            \* 142-153

\* for by, val in strategies: try: field = find_element(by, val);
\* if field.is_displayed(): break / except: continue  (boss_scraper.py:127-133).
\* The result is the index of the candidate left in the variable, 0 for None.
RECURSIVE BossFind(_, _, _)
BossFind(page, i, field) ==
    IF i > Len(page) THEN field
    ELSE IF page[i] = "absent" THEN BossFind(page, i + 1, field)
    ELSE IF page[i] = "displayed" THEN i
    ELSE BossFind(page, i + 1, i)

\* for strategy in [...]: try: el = find_element(*strategy);
\* if el.is_displayed(): field = el; break / except: continue  (lsf_scraper.py:86-92)
RECURSIVE LsfFind(_, _, _)
LsfFind(page, i, field) ==
    IF i > Len(page) THEN field
    ELSE IF page[i] = "displayed" THEN i
    ELSE LsfFind(page, i + 1, field)

\* the pages a lookup can meet: what find_element and is_displayed answer for
\* each candidate of its catalogue
LookupJobs ==
    UNION {{[fn |-> "lookup", state |-> "called", lookup |-> l, page |-> Tuple(p),
             used |-> 0, signal |-> "none"] : p \in [1..l.n -> {"absent", "hidden", "displayed"}]} :
           l \in BossLookups \cup LsfLookups}

\* the lookup and the statement after it: the element the code goes on to
\* clear, type into or click, or what it does with None
FindField ==
    /\ job.fn = "lookup" /\ job.state = "called"
    /\ \E found \in {IF job.lookup.scraper = "boss" THEN BossFind(job.page, 1, 0)
                     ELSE LsfFind(job.page, 1, 0)} :
           job' = [job EXCEPT !.state = "returned",
                              !.used = found,
                              !.signal = IF found = 0 THEN job.lookup.missing ELSE "none"]
    /\ UNCHANGED <<moodle_profile, scr, now, ttl_strict, user_login_cache, user_grades_cache,
                   inflight, ret, calls>>

MaxLinks == 3       \* links of the tree view of degree programmes

\* the links of the tree view in document order: the title of the <a> and
\* whether it holds an <img title='Leistungen anzeigen'> and points to
\* notenspiegelStudent
TreeLinks ==
    [title : {"Leistungen anzeigen", "Show achievements", "Notenspiegel (HTML)", "Info"},
     img : BOOLEAN]

\* driver.find_elements(By.CSS_SELECTOR, possible_selectors[k]) in document
\* order (boss_scraper.py:292-300); an element is the position of its link
\* and its tag
find_elements(k, page) ==
    LET matches(link) ==
            CASE k = 1 -> link.title = "Leistungen anzeigen"
              [] k = 2 -> link.title = "Show achievements"
              [] k = 3 -> link.title = "Notenspiegel (HTML)"     \* a[title*='Notenspiegel']
              [] k = 4 -> link.img
        at == SelectSeq(Tuple([i \in 1..Len(page) |-> i]), LAMBDA i : matches(page[i]))
    IN Tuple([j \in 1..Len(at) |-> [link |-> at[j], tag |-> IF k = 4 THEN "img" ELSE "a"]])

\* boss_scraper.py:290-319: the position of the link that is clicked, 0 when
\* grade_links is empty and the generic fallback is taken
GradeLinkClicked(page) ==
    CHOOSE clicked \in
        {IF Len(grade_links) = 0 THEN 0 ELSE grade_links[Len(grade_links)].link :
         grade_links \in {find_elements(1, page) \o find_elements(2, page)
                          \o find_elements(3, page) \o find_elements(4, page)}} : TRUE

NavigateJobs ==
    UNION {{[fn |-> "navigate_to_grades", state |-> "called", page |-> Tuple(p), clicked |-> 0] :
            p \in [1..n -> TreeLinks]} : n \in 0..MaxLinks}

SelectGradeLink ==
    /\ job.fn = "navigate_to_grades" /\ job.state = "called"
    /\ job' = [job EXCEPT !.state = "returned", !.clicked = GradeLinkClicked(job.page)]
    /\ UNCHANGED <<moodle_profile, scr, now, ttl_strict, user_login_cache, user_grades_cache,
                   inflight, ret, calls>>

MaxHeaders == 2     \* <th> cells of the transcript page

\* degree_info as extract_degree_identity initialises it (boss_scraper.py:372-378)
NoIdentity ==
    [degree_type |-> "None", degree_subject |-> "None", po_version |-> "None",
     degree_code |-> "None", abschluss_code |-> "None"]

\* what the patterns of extract_degree_identity find in a transcript page,
\* "None" where a pattern does not match:
\*   headers: per <th> cell the groups of r'Abschluss:\[(\d+)\]\s*([^S]+)' (the
\*     second stripped; under re.IGNORECASE it ends before the first s or S)
\*     and of r'Studiengang:\[([A-Z]\d+)\]\s*(.+?)(?:\(|$)';
\*   text: the groups of r'Abschluss\s+(\d+)\s+(Bachelor|Master)';
\*   font: the groups of r'(.+?)\s*\(PO-Version\s+(\d+)\)' in the first
\*     <font class='liste1'> that matches;
\*   stg, abschl: the group of r'stg=([A-Z]\d+)' and of r'abschl(?:uss)?[:=](\d+)'
IdentityPages ==
    LET cells ==
            {[abschluss |-> "None", type_text |-> "None", code |-> "None", subject |-> "None"],
             [abschluss |-> "82", type_text |-> "Bachelor an Univer", code |-> "None",
              subject |-> "None"],
             [abschluss |-> "88", type_text |-> "Ma", code |-> "None", subject |-> "None"],
             [abschluss |-> "82", type_text |-> "", code |-> "B62",
              subject |-> "Angewandte Informatik"],
             [abschluss |-> "None", type_text |-> "None", code |-> "B62",
              subject |-> "Angewandte Informatik"],
             [abschluss |-> "None", type_text |-> "None", code |-> "M10",
              subject |-> "Data Science"]}
        texts == {[code |-> "None", type |-> "None"], [code |-> "82", type |-> "Bachelor"],
                  [code |-> "88", type |-> "Master"]}
        fonts == {[subject |-> "None", po |-> "None"],
                  [subject |-> "Wirtschaftsinformatik", po |-> "2023"]}
    IN UNION {[headers : {Tuple(h) : h \in [1..n -> cells]}, text : texts, font : fonts,
               stg : {"None", "B62", "M10"}, abschl : {"None", "82", "88", "90"}] :
              n \in 0..MaxHeaders}

\* `not value` for a field of degree_info
Unset(value) == value \in {"None", ""}

\* Strategy 1 (boss_scraper.py:383-402): the header cells from the i-th on
RECURSIVE HeaderStrategy(_, _, _)
HeaderStrategy(info, headers, i) ==
    IF i > Len(headers) THEN info
    ELSE LET cell == headers[i]
             typed == IF cell.abschluss = "None" THEN info                  \* 388-397
                      ELSE [info EXCEPT
                               !.abschluss_code = cell.abschluss,
                               !.degree_type =
                                   CASE cell.type_text = "Bachelor an Univer" -> "Bachelor"
                                     [] cell.type_text = "" -> "None"
                                     [] OTHER -> cell.type_text]
             named == IF cell.code = "None" THEN typed                      \* 399-402
                      ELSE [typed EXCEPT !.degree_code = cell.code,
                                         !.degree_subject = cell.subject]
         IN HeaderStrategy(named, headers, i + 1)

\* Strategies 2 to 4 (boss_scraper.py:404-442)
LaterStrategy(k, info, page) ==
    CASE k = 2 ->
            LET typed == IF Unset(info.degree_type) /\ page.text.code # "None"     \* 405-410
                         THEN [info EXCEPT !.abschluss_code = page.text.code,
                                           !.degree_type = page.text.type]
                         ELSE info
            IN IF Unset(typed.degree_subject) /\ page.font.subject # "None"        \* 412-422
               THEN [typed EXCEPT !.degree_subject = page.font.subject,
                                  !.po_version = page.font.po]
               ELSE typed
      [] k = 3 ->
            IF Unset(info.degree_code) /\ page.stg # "None"                        \* 425-435
            THEN [info EXCEPT
                     !.degree_code = page.stg,
                     !.degree_subject = IF page.stg = "B62" /\ Unset(info.degree_subject)
                                        THEN "Angewandte Informatik" ELSE @,
                     !.degree_type = IF page.stg = "B62" /\ Unset(info.degree_type)
                                     THEN "Bachelor" ELSE @]
            ELSE info
      [] k = 4 ->
            IF Unset(info.abschluss_code) /\ page.abschl # "None"                  \* 438-446
            THEN [info EXCEPT
                     !.abschluss_code = page.abschl,
                     !.degree_type = CASE page.abschl = "82" -> "Bachelor"
                                       [] page.abschl = "88" -> "Master"
                                       [] OTHER -> @]
            ELSE info

\* degree_info at the start and after each of the four strategies
\* (boss_scraper.py:353-451); the last is what extract_degree_identity returns
IdentityTrace(page) ==
    CHOOSE trace \in
        {<<NoIdentity, s1, s2, s3, LaterStrategy(4, s3, page)>> :
         s3 \in {LaterStrategy(3, s2, page) :
                 s2 \in {LaterStrategy(2, s1, page) :
                         s1 \in {HeaderStrategy(NoIdentity, page.headers, 1)}}},
         s2 \in {LaterStrategy(2, s1, page) :
                 s1 \in {HeaderStrategy(NoIdentity, page.headers, 1)}},
         s1 \in {HeaderStrategy(NoIdentity, page.headers, 1)}} : TRUE

\* dict.get(key, default); a dictionary is a function on its keys
EmptyDict == [key \in {} |-> "None"]
dict_get(d, key, default) == IF key \in DOMAIN d THEN d[key] ELSE default

IdentityJobs ==
    {[fn |-> "extract_degree_identity", state |-> "called", page |-> p,
      trace |-> <<NoIdentity>>, profile_name |-> "None", degree_program |-> "None"] :
     p \in IdentityPages}

\* get_data calls extract_degree_identity (boss_scraper.py:608)
ExtractDegreeIdentity ==
    /\ job.fn = "extract_degree_identity" /\ job.state = "called"
    /\ job' = [job EXCEPT !.state = "extracted", !.trace = IdentityTrace(job.page)]
    /\ UNCHANGED <<moodle_profile, scr, now, ttl_strict, user_login_cache, user_grades_cache,
                   inflight, ret, calls>>

\* get_data returns its dictionary (boss_scraper.py:616-621) and fetch_grades
\* builds the profile of its response from it (main.py:513-520)
BuildProfile ==
    /\ job.fn = "extract_degree_identity" /\ job.state = "extracted"
    /\ \E data \in {[timestamp |-> "isoformat",
                     degree_identity |-> job.trace[Len(job.trace)],
                     exams |-> "exams", summary |-> "summary"]} :
           job' = [job EXCEPT
                      !.state = "responded",
                      !.profile_name =
                          dict_get(dict_get(data, "identity", EmptyDict),
                                   "degree_subject", "Student"),
                      !.degree_program =
                          dict_get(dict_get(data, "identity", EmptyDict),
                                   "degree_subject", "Unknown")]
    /\ UNCHANGED <<moodle_profile, scr, now, ttl_strict, user_login_cache, user_grades_cache,
                   inflight, ret, calls>>

InitPage ==
    /\ InitServer
    /\ ttl_strict = TRUE
    /\ \/ job \in LookupJobs
       \/ job \in NavigateJobs
       \/ job \in IdentityJobs

NextPage ==
    \/ FindField
    \/ SelectGradeLink
    \/ ExtractDegreeIdentity
    \/ BuildProfile

SpecPage == InitPage /\ [][NextPage]_vars

\* ---------------------------------------------------------------------------
\* Properties of the page functions
\* ---------------------------------------------------------------------------
LookedUp == job.fn = "lookup" /\ job.state = "returned"

Displayed == {i \in 1..Len(job.page) : job.page[i] = "displayed"}

\* C21: every ranked lookup of the two login forms goes on with the first
\* candidate, in list order, that is present and displayed; when no candidate
\* is displayed it goes on with no element and raises or takes its fallback.
C21_FirstDisplayedCandidate ==
    LookedUp =>
        IF Displayed = {}
        THEN job.used = 0 /\ job.signal \in {"raise", "fallback"}
        ELSE job.used \in Displayed /\ \A i \in Displayed : job.used <= i

Navigated == job.fn = "navigate_to_grades" /\ job.state = "returned"

\* the links some 'show achievements' selector matches, as the link or as its image
AchievementLinks ==
    {i \in 1..Len(job.page) :
        job.page[i].title # "Info" \/ job.page[i].img}

\* C24: among the tree-view links that some 'show achievements' selector
\* matches, the exam-records navigator clicks the one that comes last in the
\* page, whichever selector matched it.
C24_ClicksLastInDocument ==
    Navigated /\ AchievementLinks # {} =>
        job.clicked \in AchievementLinks /\ \A i \in AchievementLinks : i <= job.clicked

IdentityExtracted ==
    job.fn = "extract_degree_identity" /\ job.state \in {"extracted", "responded"}

\* C26: in degree identity extraction every field keeps the value of the first
\* strategy that produced one: a field that has a value after a strategy has
\* the same value after every later strategy.
C26_FirstStrategyWins ==
    IdentityExtracted =>
        \A k \in 1..Len(job.trace), l \in 1..Len(job.trace) :
            k < l =>
                \A f \in DOMAIN NoIdentity :
                    ~Unset(job.trace[k][f]) => job.trace[l][f] = job.trace[k][f]

\* C28: when the scrape extracted a degree identity with a non-empty
\* degree_subject, the /fetch-grades response reports that subject as
\* profile_name and as degree_program.
C28_SubjectReachesResponse ==
    job.fn = "extract_degree_identity" /\ job.state = "responded"
        /\ ~Unset(job.trace[Len(job.trace)].degree_subject) =>
            /\ job.profile_name = job.trace[Len(job.trace)].degree_subject
            /\ job.degree_program = job.trace[Len(job.trace)].degree_subject

\* ---------------------------------------------------------------------------
\* One scrape attempt, step by step: scr holds the run the attempt takes and
\* job.pos the number of its browser steps done so far.  Every step is a driver
\* command, a wait on WebDriverWait(driver, 10) (boss_scraper.py:82) or a
\* time.sleep(3) (boss_scraper.py:189), so a step that is due is taken: the
\* fairness conditions of SpecAttempt.
\* ---------------------------------------------------------------------------
InitAttempt ==
    /\ InitServer
    /\ ttl_strict = TRUE
    /\ job = [fn |-> "attempt", pos |-> 0]

\* the next browser step of the attempt
AttemptStep ==
    /\ scr # ScrIdle /\ job.pos < Len(scr.ev)
    /\ job' = [job EXCEPT !.pos = @ + 1]
    /\ UNCHANGED <<moodle_profile, scr, now, ttl_strict, user_login_cache, user_grades_cache,
                   inflight, ret, calls>>

\* get_data, get_deadlines or get_current_classes returns its dictionary
AttemptEnd ==
    /\ scr # ScrIdle /\ job.pos = Len(scr.ev)
    /\ scr' = ScrIdle
    /\ job' = [job EXCEPT !.pos = 0]
    /\ UNCHANGED <<moodle_profile, now, ttl_strict, user_login_cache, user_grades_cache,
                   inflight, ret, calls>>

NextAttempt ==
    \/ AttemptStep
    \/ AttemptEnd
    \/ \E c \in Credentials, close_driver \in BOOLEAN : ScrapeMoodle(c, close_driver)
    \/ \E c \in Credentials, t \in TotpSecrets : ScrapeBoss(c, t)
    \/ \E c \in Credentials, t \in TotpSecrets : ScrapeLsf(c, t)

SpecAttempt ==
    InitAttempt /\ [][NextAttempt]_vars /\ WF_vars(AttemptStep) /\ WF_vars(AttemptEnd)

\* the steps of the running attempt taken so far
StepsDone == SubSeq(scr.ev, 1, job.pos)

\* C22: within one call of get_data, get_deadlines or get_current_classes the
\* SSO form is submitted at most once and a TOTP code at most once, and every
\* attempt that started ends, with a result or with a failure.
C22_NoRetryAndEnds ==
    /\ [](Count(StepsDone, "submit") <= 1 /\ Count(StepsDone, "submit_token") <= 1)
    /\ (scr # ScrIdle) ~> (scr = ScrIdle /\ job.pos = 0)

C22_Witness ==
    /\ scr.kind = "boss" /\ job.pos = Len(scr.ev)
    /\ Count(StepsDone, "submit") = 1
    /\ Count(StepsDone, "submit_token") = 1
    /\ scr.success

\* ---------------------------------------------------------------------------
\* webdriver_utils.get_cached_driver_path (webdriver_utils.py:8-26) called from
\* several threads.  The function takes no lock, so the statements of two
\* callers interleave at every point where a thread can be switched; job.pc
\* is each caller's position in the function.
\* ---------------------------------------------------------------------------
MaxCallers == 2     \* threads that call get_cached_driver_path
MaxPathCalls == 3   \* calls of get_cached_driver_path per behaviour

Callers == 1..MaxCallers

NoPath == [dir |-> "None", file |-> "None"]

\* what ChromeDriverManager().install() can return: the binary, or the notices
\* file next to it, of the driver version it finds at the time of the call
InstallPaths ==
    {[dir |-> d, file |-> f] : d \in {"/wdm/114", "/wdm/115"},
                               f \in {"chromedriver", "THIRD_PARTY_NOTICES.chromedriver"}}

InitDriverPath ==
    /\ InitServer
    /\ ttl_strict = TRUE
    /\ job = [fn |-> "get_cached_driver_path", cached |-> NoPath, installs |-> 0, resolved |-> 0,
              started |-> 0,
              pc |-> [t \in Callers |-> "idle"], driver_path |-> [t \in Callers |-> NoPath],
              returned |-> [t \in Callers |-> NoPath]]

\* one statement of caller t
get_cached_driver_path(t) ==
    /\ job.fn = "get_cached_driver_path"
    /\ \/ /\ job.pc[t] \in {"idle", "returned", "raised"}       \* the call
          /\ job.started < MaxPathCalls
          /\ job' = [job EXCEPT !.pc[t] = "test", !.started = @ + 1,
                                !.driver_path[t] = NoPath, !.returned[t] = NoPath]
       \/ /\ job.pc[t] = "test"                                 \* 12
          /\ job' = [job EXCEPT !.pc[t] = IF job.cached = NoPath THEN "install" ELSE "return"]
       \/ /\ job.pc[t] = "install"                              \* 15-21
          /\ \E p \in InstallPaths :
                job' = [job EXCEPT !.pc[t] = "store", !.installs = @ + 1, !.resolved = @ + 1,
                                   !.driver_path[t] =
                                       IF p.file = "THIRD_PARTY_NOTICES.chromedriver"
                                       THEN [dir |-> p.dir, file |-> "chromedriver"] ELSE p]
       \/ /\ job.pc[t] = "install"                              \* 15, 23-25
          /\ job' = [job EXCEPT !.pc[t] = "raised", !.installs = @ + 1]
       \/ /\ job.pc[t] = "store"                                \* 22
          /\ job' = [job EXCEPT !.pc[t] = "return", !.cached = job.driver_path[t]]
       \/ /\ job.pc[t] = "return"                               \* 26
          /\ job' = [job EXCEPT !.pc[t] = "returned", !.returned[t] = job.cached]
    /\ UNCHANGED <<moodle_profile, scr, now, ttl_strict, user_login_cache, user_grades_cache,
                   inflight, ret, calls>>

NextDriverPath == \E t \in Callers : get_cached_driver_path(t)

SpecDriverPath == InitDriverPath /\ [][NextDriverPath]_vars

\* C23: whatever the interleaving of the callers, at most one invocation of
\* the installer ever returns a path, all callers that have returned hold the
\* same path, and as long as no invocation has returned a path the cached
\* path is unset.
C23_ResolvedOnce ==
    job.fn = "get_cached_driver_path" =>
        /\ job.resolved <= 1
        /\ \A s, t \in Callers :
               job.pc[s] = "returned" /\ job.pc[t] = "returned"
                   => job.returned[s] = job.returned[t]
        /\ (job.resolved = 0 => job.cached = NoPath)

\* ---------------------------------------------------------------------------
\* LsfScraper.extract_current_classes (lsf_scraper.py:171-262).  The document
\* is list(soup.descendants): the nodes in document order, a tag before the
\* strings it contains.  A node is its name ("None" for a string) and its
\* text (the string itself, get_text() for a tag).
\* ---------------------------------------------------------------------------
MaxItems == 4       \* strings and anchors of a lecture page

LsfText ==
    [
     start_marker |-> <<"A", "k", "t", "u", "e", "l", "l", "e", " ", "V", "e", "r", "a", "n", "s", "t", "a",
          "l", "t", "u", "n", "g", "e", "n", ":">>,
     end_marker |-> <<"A", "b", "s", "o", "l", "v", "i", "e", "r", "t", "e", " ", "V", "e", "r", "a", "n",
          "s", "t", "a", "l", "t", "u", "n", "g", "e", "n", ":">>,
     prefix |-> <<"V", "e", "r", "a", "n", "s", "t", "a", "l", "t", "u", "n", "g", ":">>,
     start_heading |-> <<"A", "k", "t", "u", "e", "l", "l", "e", "\n", " ", " ", "V", "e", "r", "a", "n", "s",
          "t", "a", "l", "t", "u", "n", "g", "e", "n", ":", " ">>,
     end_heading |-> <<" ", "A", "b", "s", "o", "l", "v", "i", "e", "r", "t", "e", " ", "V", "e", "r", "a",
          "n", "s", "t", "a", "l", "t", "u", "n", "g", "e", "n", ":", " ", "3">>,
     prefix_label |-> <<"V", "e", "r", "a", "n", "s", "t", "a", "l", "t", "u", "n", "g", ":", " ">>,
     logik |-> <<"0", "4", "0", "2", "3", "7", " ", " ", "L", "o", "g", "i", "k">>,
     analysis |-> <<"A", "n", "a", "l", "y", "s", "i", "s", " ", "I">>,
     raum |-> <<"R", "a", "u", "m", " ", "0", "4", "0", "2", "3", "7">>]

\* junk, lsf_scraper.py:244
JunkWords ==
    {<<"T", "a", "g">>,
     <<"Z", "e", "i", "t">>,
     <<"R", "h", "y", "t", "h", "m", "u", "s">>,
     <<"D", "a", "u", "e", "r">>,
     <<"R", "a", "u", "m">>,
     <<"L", "e", "h", "r", "p", "e", "r", "s", "o", "n">>,
     <<"H", "i", "n", "w", "e", "i", "s">>,
     <<"B", "e", "l", "e", "g", "u", "n", "g", "s", "i", "n", "f", "o", "r", "m", "a", "t", "i", "o", "n">>,
     <<"f", "i", "n", "d", "e", "t", " ", "s", "t", "a", "t", "t">>,
     <<"B", "e", "l", "e", "g", "u", "n", "g", "s", "-">>,
     <<"P", "D", "F">>,
     <<"S", "t", "u", "n", "d", "e", "n", "p", "l", "a", "n">>,
     <<"A", "n", "m", "e", "l", "d", "e", "n">>,
     <<"L", "o", "g", "i", "n">>}

\* re.sub(r'\s+', ' ', t).strip()
normalize(t) ==
    LET ws(ch) == ch \in {" ", "\n"}
        kept == SelectSeq(Tuple([i \in 1..Len(t) |-> i]),
                          LAMBDA i : ~ws(t[i]) \/ i = 1 \/ ~ws(t[i - 1]))
        single == Tuple([j \in 1..Len(kept) |-> IF ws(t[kept[j]]) THEN " " ELSE t[kept[j]]])
        lo == IF Len(single) > 0 /\ single[1] = " " THEN 2 ELSE 1
        hi == IF Len(single) > 0 /\ single[Len(single)] = " "
              THEN Len(single) - 1 ELSE Len(single)
    IN SubSeq(single, lo, hi)

\* list(soup.descendants) of a page made of strings and of anchors that hold
\* one string each
descendants(items) ==
    LET nodes(it) == IF it.anchor THEN <<[name |-> "a", text |-> it.text],
                                         [name |-> "None", text |-> it.text]>>
                     ELSE <<[name |-> "None", text |-> it.text]>>
        flat[k \in 0..Len(items)] == IF k = 0 THEN <<>> ELSE flat[k - 1] \o nodes(items[k])
    IN flat[Len(items)]

\* a range that begins at the first node of the document
WholeDocument(all_nodes) == [start_idx |-> 1, end_idx |-> Len(all_nodes) + 1]

\* start_idx and end_idx (lsf_scraper.py:185-197); the nodes are numbered
\* from 1, so start_idx 0 is the code's -1
MarkerRange(all_nodes) ==
    LET has(marker, i) ==
            all_nodes[i].name = "None" /\ InStr(marker, normalize(all_nodes[i].text))
        starts == {i \in 1..Len(all_nodes) : has(LsfText.start_marker, i)}
        start_idx == IF starts = {} THEN 0
                     ELSE CHOOSE i \in starts : \A j \in starts : i <= j
        ends == {i \in 1..Len(all_nodes) :
                    start_idx # 0 /\ i > start_idx /\ has(LsfText.end_marker, i)}
    IN [start_idx |-> start_idx,
        end_idx |-> IF ends = {} THEN Len(all_nodes) + 1
                    ELSE CHOOSE i \in ends : \A j \in ends : i <= j]

\* lsf_scraper.py:215-248: node i is an anchor that passes for a lecture link
is_candidate(all_nodes, i, start_idx) ==
    /\ all_nodes[i].name = "a"
    /\ \E link_text \in {normalize(all_nodes[i].text)} :
          /\ \/ \E d \in 1..(Len(link_text) - 3) :                       \* 229
                    \A k \in 0..3 : IsDigit(link_text[d + k])
             \/ \E j \in 1..(i - 1) :                                    \* 234-240
                    /\ j >= start_idx /\ j >= i - 20
                    /\ all_nodes[j].name = "None"
                    /\ InStr(LsfText.prefix, normalize(all_nodes[j].text))
          /\ \A w \in JunkWords : ~InStr(lower(w), lower(link_text))     \* 245-246
          /\ Len(link_text) >= 5                                         \* 247-248

\* lsf_scraper.py:199-262
extract_current_classes(all_nodes) ==
    CHOOSE classes \in
        {IF r.start_idx = 0 THEN <<>>
         ELSE LET found == {i \in r.start_idx..(r.end_idx - 1) :
                               is_candidate(all_nodes, i, r.start_idx)}
                  kept == SelectSeq(Tuple([i \in 1..Len(all_nodes) |-> i]),
                              LAMBDA i :
                                  /\ i \in found
                                  /\ \A j \in found :                    \* 252-255
                                         j < i => normalize(all_nodes[j].text)
                                                      # normalize(all_nodes[i].text))
              IN Tuple([k \in 1..Len(kept) |-> normalize(all_nodes[kept[k]].text)]) :
         r \in {MarkerRange(all_nodes)}} : TRUE

\* the pages: up to MaxItems strings and anchors
LsfItems ==
    {[anchor |-> FALSE, text |-> LsfText.start_heading],
     [anchor |-> FALSE, text |-> LsfText.end_heading],
     [anchor |-> FALSE, text |-> LsfText.prefix_label],
     [anchor |-> TRUE, text |-> LsfText.logik],
     [anchor |-> TRUE, text |-> LsfText.analysis],
     [anchor |-> TRUE, text |-> LsfText.raum]}

ClassesJobs ==
    UNION {{[fn |-> "extract_current_classes", state |-> "called",
             all_nodes |-> descendants(Tuple(p)), classes |-> <<>>] :
            p \in [1..n -> LsfItems]} : n \in 0..MaxItems}

InitClasses ==
    /\ InitServer
    /\ ttl_strict = TRUE
    /\ job \in ClassesJobs

\* get_current_classes calls extract_current_classes (lsf_scraper.py:282)
ExtractCurrentClasses ==
    /\ job.fn = "extract_current_classes" /\ job.state = "called"
    /\ \E r \in {extract_current_classes(job.all_nodes)} :
           job' = [job EXCEPT !.state = "returned", !.classes = r]
    /\ UNCHANGED <<moodle_profile, scr, now, ttl_strict, user_login_cache, user_grades_cache,
                   inflight, ret, calls>>

NextClasses == ExtractCurrentClasses

SpecClasses == InitClasses /\ [][NextClasses]_vars

\* ---------------------------------------------------------------------------
\* Properties of the lecture extraction
\* ---------------------------------------------------------------------------
ClassesReturned == job.fn = "extract_current_classes" /\ job.state = "returned"

\* the string nodes that hold the marker
NodesWith(marker) ==
    {i \in 1..Len(job.all_nodes) :
        job.all_nodes[i].name = "None" /\ InStr(marker, normalize(job.all_nodes[i].text))}

\* the anchors after the first start marker and before the first end marker
\* that follows it
AnchorsBetween ==
    {i \in 1..Len(job.all_nodes) :
        /\ job.all_nodes[i].name = "a"
        /\ \E s \in NodesWith(LsfText.start_marker) :
              /\ \A t \in NodesWith(LsfText.start_marker) : s <= t
              /\ s < i
              /\ \A e \in NodesWith(LsfText.end_marker) : s < e => i < e}

\* C25: extract_current_classes returns only texts of anchors that lie after
\* the first node with the start marker and before the first later node with
\* the end marker (the end of the document without one), nothing when there
\* is no start marker, and no name twice.
C25_OnlyBetweenMarkers ==
    ClassesReturned =>
        /\ \A k \in 1..Len(job.classes) :
               \E i \in AnchorsBetween : job.classes[k] = normalize(job.all_nodes[i].text)
        /\ \A k, l \in 1..Len(job.classes) : k # l => job.classes[k] # job.classes[l]
        /\ (NodesWith(LsfText.start_marker) = {} => job.classes = <<>>)

C25_Witness ==
    /\ ClassesReturned
    /\ Len(job.all_nodes) = 7
    /\ job.all_nodes[1].text = LsfText.raum
    /\ job.all_nodes[3].text = LsfText.start_heading
    /\ job.all_nodes[4].text = LsfText.logik
    /\ job.all_nodes[6].text = LsfText.logik
    /\ job.classes = <<normalize(LsfText.logik)>>

\* ---------------------------------------------------------------------------
\* Properties of the handlers (continued)
\* ---------------------------------------------------------------------------
\* the invocation of /login that started in this step returned a success
\* response built from its own scrapes
LoginSucceededNow ==
    /\ StartedNow
    /\ ret'.id = calls' /\ ret'.ep = "login" /\ ret'.status = "returned"
    /\ ret'.source = "scrape" /\ ret'.resp.success

\* C27: /login answers success=true from a scrape, and caches the answer,
\* only if the Moodle navigator authenticated with the supplied credentials
\* in that call: some run of get_deadlines for these credentials and the
\* stored profile succeeds and leaves the session of these credentials.
C27_SuccessNeedsMoodleLogin ==
    [][LoginSucceededNow =>
           \E m \in MoodleOutcomeOf(ret'.cred, moodle_profile) :
               m.success /\ m.profile = SessionOf(ret'.cred)]_vars

\* C29: the cache lookup of /login and /fetch-grades, a membership test
\* followed by a read of the same key, never raises: no handler invocation
\* ends with the KeyError of the read.
C29_LookupNeverRaises ==
    ~(ret.status = "raised" /\ ret.resp.error = "KeyError")

\* ---------------------------------------------------------------------------
\* get_cache_key on pairs of credential tuples (main.py:105-112): the string
\* that is hashed, for usernames and passwords that may hold the separator
\* ---------------------------------------------------------------------------
MaxKeyLen == 2      \* characters of a username or password

\* two credential tuples over the characters 'a' and ':'
KeyJobs ==
    LET texts == UNION {{Tuple(t) : t \in [1..n -> {97, 58}]} : n \in 0..MaxKeyLen}
        tuples == [username : texts, password : texts]
    IN {[fn |-> "get_cache_key", state |-> "called", first |-> c, second |-> d,
         combined |-> <<>>] : c \in tuples, d \in tuples}

InitKey ==
    /\ InitServer
    /\ ttl_strict = TRUE
    /\ job \in KeyJobs

\* the handlers compute the key of each request (main.py:375, 442)
GetCacheKeys ==
    /\ job.fn = "get_cache_key" /\ job.state = "called"
    /\ job' = [job EXCEPT !.state = "returned",
                          !.combined = <<Combined(job.first.username, job.first.password),
                                         Combined(job.second.username, job.second.password)>>]
    /\ UNCHANGED <<moodle_profile, scr, now, ttl_strict, user_login_cache, user_grades_cache,
                   inflight, ret, calls>>

NextKey == GetCacheKeys

SpecKey == InitKey /\ [][NextKey]_vars

\* C30: the string get_cache_key hashes is an injective encoding of the
\* credential tuple: two different tuples give two different strings, also
\* when a username or a password holds the ':' separator.
C30_CombinedIsInjective ==
    job.fn = "get_cache_key" /\ job.state = "returned" /\ job.first # job.second
        => job.combined[1] # job.combined[2]

====
